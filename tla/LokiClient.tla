------------------------------ MODULE LokiClient ------------------------------
(***************************************************************************)
(* The Loki sink's client (pkg/exporter/loki/client.go): Send puts entries *)
(* on a channel, one goroutine collects them in a batch and posts it when  *)
(* it is full or when the timer goes off.  Entries are numbered in the     *)
(* order of Send.                                                          *)
(***************************************************************************)
EXTENDS Naturals, Sequences

CONSTANTS MaxEntries,           \* bound on the entries sent
          LogEntriesChanSize, BatchEntriesNumber   \* 5000 and 10000 in the source

VARIABLES sent, entries, batch,
          looping,    \* "select", "post", "last" (the deferred post), "hung" or "gone"
          maxWait,    \* the timer: "armed", "fired" (its channel holds a tick) or "idle"
          closing,    \* Close: "no", "quit" (sending on quit), "wait", "closed"
          posted      \* history: what was posted, in order, whatever the answer was

lkVars == <<sent, entries, batch, looping, maxWait, closing, posted>>

LkInit == /\ sent = 0 /\ entries = << >> /\ batch = << >>
          /\ looping = "select" /\ maxWait = "armed" /\ closing = "no" /\ posted = << >>

\* Blocks while the channel is full.
Send == /\ sent < MaxEntries /\ Len(entries) < LogEntriesChanSize
        /\ sent' = sent + 1 /\ entries' = Append(entries, sent + 1)
        /\ UNCHANGED <<batch, looping, maxWait, closing, posted>>

LoopTakes == /\ looping = "select" /\ entries # << >>
             /\ entries' = Tail(entries) /\ batch' = Append(batch, Head(entries))
             /\ looping' = IF Len(batch') >= BatchEntriesNumber THEN "post" ELSE "select"
             /\ UNCHANGED <<sent, maxWait, closing, posted>>

\* Mutant: the timer is set again only after a post.
LoopTicksOnce == /\ looping = "select" /\ maxWait = "fired"
                 /\ maxWait' = "idle"
                 /\ looping' = IF batch # << >> THEN "post" ELSE "select"
                 /\ UNCHANGED <<sent, entries, batch, closing, posted>>

LoopTicks == /\ looping = "select" /\ maxWait = "fired"
             /\ IF batch # << >> THEN looping' = "post" /\ maxWait' = "idle"
                                 ELSE maxWait' = "armed" /\ UNCHANGED looping
             /\ UNCHANGED <<sent, entries, batch, closing, posted>>

LoopQuits == /\ looping = "select" /\ closing = "quit"
             /\ closing' = "wait"
             /\ looping' = IF batch # << >> THEN "last" ELSE "gone"
             /\ UNCHANGED <<sent, entries, batch, maxWait, posted>>

\* send returns nothing: accepted, refused or failed, the batch is emptied and the timer
\* reset, which takes back a tick that nobody has received (Go 1.23 and later).
Post == /\ looping \in {"post", "last"}
        /\ posted' = posted \o batch /\ batch' = << >>
        /\ looping' = IF looping = "last" THEN "gone" ELSE "select"
        /\ maxWait' = IF looping = "last" THEN maxWait ELSE "armed"
        /\ UNCHANGED <<sent, entries, closing>>

\* The request has no time-out.
PostHangs == /\ looping \in {"post", "last"} /\ looping' = "hung"
             /\ UNCHANGED <<sent, entries, batch, maxWait, closing, posted>>

Fires == /\ maxWait = "armed" /\ maxWait' = "fired"
         /\ UNCHANGED <<sent, entries, batch, looping, closing, posted>>

Close == /\ closing = "no" /\ closing' = "quit"
         /\ UNCHANGED <<sent, entries, batch, looping, maxWait, posted>>

CloseReturns == /\ closing = "wait" /\ looping = "gone" /\ closing' = "closed"
                /\ UNCHANGED <<sent, entries, batch, looping, maxWait, posted>>

IngestStep == LoopTakes \/ LoopTicks \/ LoopQuits \/ Post

LkNext == Send \/ IngestStep \/ PostHangs \/ Fires \/ Close \/ CloseReturns

LkSpec == LkInit /\ [][LkNext]_lkVars
-----------------------------------------------------------------------------
\* The channel and the batch are within their sizes.
LkTypeOK == /\ Len(entries) <= LogEntriesChanSize /\ Len(batch) <= BatchEntriesNumber
            /\ looping \in {"select", "post", "last", "hung", "gone"}
            /\ maxWait \in {"armed", "fired", "idle"} /\ closing \in {"no", "quit", "wait", "closed"}

\* When no more entries come, everything that Send took is posted, though the batch is not
\* full, unless a post never returns or the client is closed.
FlushesInTime == []<>(Len(posted) = sent \/ looping = "hung" \/ closing # "no")
=============================================================================
