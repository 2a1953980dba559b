--------------------------- MODULE DeviceLatency ----------------------------
(***************************************************************************)
(* bpf/virtcmdlatency.c and bpf/tracebiolatency.c: the time a virtio-net   *)
(* control command and a block request take.  A command is found again by  *)
(* its thread in a per-CPU map, a request by its address in a plain one.   *)
(***************************************************************************)
EXTENDS BpfMaps

CONSTANTS DlCpus, Tids, Requests, DlThresh, DlMaxEntries, MaxRequests

VARIABLES vcCall,           \* threads inside virtnet_send_command: tid -> [cpu, since, moved]
          insp_virtcmdlat,  \* tid -> [DlCpus -> time]
          vcEvent,
          bioReq,           \* requests in flight: address -> [gen, since]
          bioGen,
          insp_biolat_entry,\* address -> [start, gen]
          bioEvent,
          bioMerged         \* history: a started request was merged away, never done

vcVars  == <<vcCall, insp_virtcmdlat, vcEvent>>
bioVars == <<bioReq, bioGen, insp_biolat_entry, bioEvent, bioMerged>>

DlInit == /\ vcCall = << >> /\ insp_virtcmdlat = << >>
          /\ vcEvent = [latency |-> 0, own |-> 0, moved |-> FALSE]
          /\ bioReq = << >> /\ bioGen = 0 /\ insp_biolat_entry = << >>
          /\ bioEvent = [latency |-> 0, opened |-> 0, gen |-> 0] /\ bioMerged = FALSE
-----------------------------------------------------------------------------

trace_virtcmd(t, c) ==
  /\ t \notin DOMAIN vcCall
  /\ vcCall' = Put(vcCall, t, [cpu |-> c, since |-> now, moved |-> FALSE])
  /\ insp_virtcmdlat' = PercpuUpdate(insp_virtcmdlat, t, c, now, DlCpus, DlMaxEntries)
  /\ UNCHANGED vcEvent

\* The scheduler moves the thread while it waits for the device.
Migrate(t, c) ==
  /\ t \in DOMAIN vcCall /\ c # vcCall[t].cpu
  /\ vcCall' = [vcCall EXCEPT ![t].cpu = c, ![t].moved = TRUE]
  /\ UNCHANGED <<insp_virtcmdlat, vcEvent>>

trace_virtcmdret(t) ==
  LET m == insp_virtcmdlat  call == vcCall[t] IN
  /\ t \in DOMAIN vcCall
  /\ vcCall' = HashDelete(vcCall, t)
  /\ insp_virtcmdlat' = HashDelete(m, t)
  /\ vcEvent' = IF t \in DOMAIN m /\ now - m[t][call.cpu] > DlThresh
                THEN [latency |-> now - m[t][call.cpu], own |-> now - call.since, moved |-> call.moved]
                ELSE vcEvent

\* The kernel has a limited number of kretprobe instances; when they are used up the
\* return is not seen.
MissedReturn(t) == /\ t \in DOMAIN vcCall
                   /\ vcCall' = HashDelete(vcCall, t)
                   /\ UNCHANGED <<insp_virtcmdlat, vcEvent>>
-----------------------------------------------------------------------------
biolat_start(r) ==
  /\ r \notin DOMAIN bioReq /\ bioGen < MaxRequests
  /\ bioGen' = bioGen + 1
  /\ bioReq' = Put(bioReq, r, bioGen + 1)
  /\ insp_biolat_entry' = HashUpdate(insp_biolat_entry, r, [start |-> now, gen |-> bioGen + 1], DlMaxEntries)
  /\ UNCHANGED <<bioEvent, bioMerged>>

\* A request that is issued without blk_account_io_start, such as a flush.
Unstarted(r) ==
  /\ r \notin DOMAIN bioReq /\ bioGen < MaxRequests
  /\ bioGen' = bioGen + 1
  /\ bioReq' = Put(bioReq, r, bioGen + 1)
  /\ UNCHANGED <<insp_biolat_entry, bioEvent, bioMerged>>

biolat_finish(r) ==
  LET m == insp_biolat_entry IN
  /\ r \in DOMAIN bioReq
  /\ bioReq' = HashDelete(bioReq, r)
  /\ insp_biolat_entry' = HashDelete(m, r)
  /\ bioEvent' = IF r \in DOMAIN m /\ now - m[r].start > DlThresh
                 THEN [latency |-> now - m[r].start, opened |-> m[r].gen, gen |-> bioReq[r]]
                 ELSE bioEvent
  /\ UNCHANGED <<bioGen, bioMerged>>

\* A request merged into another one ends without blk_account_io_done.
Merged(r) == /\ r \in DOMAIN bioReq
             /\ bioReq' = HashDelete(bioReq, r)
             /\ bioMerged' = (bioMerged \/ r \in DOMAIN insp_biolat_entry)
             /\ UNCHANGED <<bioGen, insp_biolat_entry, bioEvent>>
-----------------------------------------------------------------------------
VcStep == \E t \in Tids : \/ \E c \in DlCpus : trace_virtcmd(t, c) \/ Migrate(t, c)
                          \/ trace_virtcmdret(t)
                          \/ MissedReturn(t)

BioStep == \E r \in Requests : biolat_start(r) \/ Unstarted(r) \/ biolat_finish(r) \/ Merged(r)

VcNext  == \/ VcStep /\ UNCHANGED now
           \/ KernelTick /\ UNCHANGED vcVars

BioNext == \/ BioStep /\ UNCHANGED now
           \/ KernelTick /\ UNCHANGED bioVars

DlSpec == /\ now = 1 /\ DlInit
          /\ [][(VcNext /\ UNCHANGED bioVars) \/ (BioNext /\ UNCHANGED vcVars)]_<<now, vcVars, bioVars>>
-----------------------------------------------------------------------------
DlTypeOK ==
  /\ \A t \in DOMAIN vcCall : vcCall[t] \in [cpu : DlCpus, since : 1..MaxTime, moved : BOOLEAN]
  /\ \A t \in DOMAIN insp_virtcmdlat : insp_virtcmdlat[t] \in [DlCpus -> 0..MaxTime]
  /\ \A r \in DOMAIN insp_biolat_entry :
       insp_biolat_entry[r] \in [start : 1..MaxTime, gen : 1..MaxRequests]

\* A VIRTCMDEXCUTE event carries the time of the command it is about, even after a return
\* was missed, unless the thread was moved to another CPU, whose value is not its own.
CommandTimeIsOwn == ~vcEvent.moved => vcEvent.latency = vcEvent.own

\* A BIOLAT_10MS event is about one request: it starts from that request's own start,
\* unless a request that was merged away left its entry at the address.
BioSpanOfOneRequest == ~bioMerged => bioEvent.opened = bioEvent.gen

\* The map holds requests in flight only, unless requests were merged away.
BioEntriesInFlight ==
  ~bioMerged => \A r \in DOMAIN insp_biolat_entry :
                  r \in DOMAIN bioReq /\ insp_biolat_entry[r].gen = bioReq[r]
=============================================================================
