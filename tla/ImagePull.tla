----------------------------- MODULE ImagePull -----------------------------
(***************************************************************************)
(* A proplet pulls the Wasm binary of a task through the proxy: it asks    *)
(* for the image over MQTT, the proxy fetches it from the OCI registry,    *)
(* cuts it into chunks and publishes them to every proplet, and each       *)
(* proplet collects chunks per image name until a task that waits for the  *)
(* image finds the set complete.                                           *)
(*                                                                         *)
(* The proxy (proxy/, cmd/proxy) runs the request handler, StreamHTTP with *)
(* one goroutine per fetch, and StreamMQTT; two buffered channels connect  *)
(* them.  A byte of version v at offset i is <<v, i>>.                     *)
(***************************************************************************)
EXTENDS Integers, Sequences, SequencesExt, FiniteSets

CONSTANTS
    Apps,         \* image names
    Tasks,        \* tasks that need an image
    Proplets,
    Host,         \* task -> the proplet it runs on
    Image,        \* task -> its image name
    Layers,       \* version -> the sizes of the layers of an image's manifest
    None,
    ChunkSize,    \* PROXY_CHUNK_SIZE
    ChanSize,     \* containerChanSize
    ChunkBuffer,  \* chunkBuffer
    MaxFetches,   \* maxConcurrentFetches
    MaxPending,   \* bound: requests on their way to the proxy
    MaxFaults     \* bound: failed fetches, failed or lost publishes, expiries

VARIABLES
    latest,         \* registry: app -> version tagged latest
    requests,       \* requests published by proplets, not yet handled
    containerChan,  \* requests accepted by the handler
    fetching,       \* the proxy's fetching map
    activeFetches,  \* the proxy's counter
    fetches,        \* app -> the chunks its goroutine still has to send, or None
    dataChan,       \* chunks on their way to StreamMQTT
    assembly,       \* proplet -> app -> the chunks collected
    wait,           \* task -> "idle", "asked" or "polled"
    pulled,         \* task -> the binary it last got
    lastSent,       \* history: app -> the last chunk StreamMQTT took
    faults

vars == <<latest, requests, containerChan, fetching, activeFetches, fetches, dataChan, assembly,
          wait, pulled, lastSent, faults>>

proxyVars == <<requests, containerChan, fetching, activeFetches, fetches, dataChan, lastSent>>

-----------------------------------------------------------------------------
(* findLargestLayer: the first of the largest layers, which must have a     *)
(* size; 0 stands for the error.                                            *)
FindLargestLayer(layers) ==
    LET sizes == ToSet(layers) \cup {0} IN CHOOSE n \in sizes : \A m \in sizes : m <= n

Bytes(v) == [i \in 1..FindLargestLayer(Layers[v]) |-> <<v, i>>]

(* createChunks *)
CreateChunks(app, data) ==
    LET total == (Len(data) + ChunkSize - 1) \div ChunkSize
    IN  [i \in 1..total |->
            [app |-> app, idx |-> i - 1, total |-> total,
             data |-> SubSeq(data, (i - 1) * ChunkSize + 1,
                             IF i * ChunkSize < Len(data) THEN i * ChunkSize ELSE Len(data))]]

Init ==
    /\ latest = [a \in Apps |-> 1]
    /\ requests = <<>>
    /\ containerChan = <<>>
    /\ fetching = {}
    /\ activeFetches = 0
    /\ fetches = [a \in Apps |-> None]
    /\ dataChan = <<>>
    /\ assembly = [p \in Proplets |-> [a \in Apps |-> None]]
    /\ wait = [t \in Tasks |-> "idle"]
    /\ pulled = [t \in Tasks |-> None]
    /\ lastSent = [a \in Apps |-> None]
    /\ faults = 0

Fault == faults < MaxFaults /\ faults' = faults + 1

(* Someone pushes the next version of an image. *)
Push(a) ==
    /\ latest[a] < Len(Layers)
    /\ latest' = [latest EXCEPT ![a] = @ + 1]
    /\ UNCHANGED <<proxyVars, assembly, wait, pulled, faults>>

-----------------------------------------------------------------------------
(* The proplet. *)

(* request_binary_from_registry; the task then waits. *)
Request(t) ==
    /\ wait[t] = "idle"
    /\ Len(requests) < MaxPending
    /\ wait' = [wait EXCEPT ![t] = "asked"]
    /\ requests' = Append(requests, Image[t])
    /\ UNCHANGED <<latest, containerChan, fetching, activeFetches, fetches, dataChan, assembly,
                   pulled, lastSent, faults>>

(* ChunkAssemblyState.is_complete and assemble *)
IsComplete(state) == state # None /\ Cardinality(DOMAIN state.chunks) = state.total

Assemble(state) == FlattenSeq([i \in 1..state.total |-> state.chunks[i - 1]])

(* wait_for_binary: a poll, which takes a complete set out of the map. *)
Poll(t) ==
    /\ wait[t] # "idle"
    /\ LET state == assembly[Host[t]][Image[t]] IN
       IF IsComplete(state)
       THEN /\ pulled' = [pulled EXCEPT ![t] = Assemble(state)]
            /\ assembly' = [assembly EXCEPT ![Host[t]][Image[t]] = None]
            /\ wait' = [wait EXCEPT ![t] = "idle"]
       ELSE /\ wait[t] = "asked"
            /\ wait' = [wait EXCEPT ![t] = "polled"]
            /\ UNCHANGED <<pulled, assembly>>
    /\ UNCHANGED <<latest, proxyVars, faults>>

(* Sixty seconds without a complete set: the task fails, and its image may  *)
(* be asked for again by the task's next start.                             *)
GiveUp(t) ==
    /\ wait[t] = "polled"
    /\ wait' = [wait EXCEPT ![t] = "idle"]
    /\ UNCHANGED <<latest, proxyVars, assembly, pulled, faults>>

(* Mutant: a chunk of another total is taken. *)
MutHandleChunk(state, c) ==
    LET s == IF state = None THEN [total |-> c.total, chunks |-> <<>>] ELSE state
        D == DOMAIN s.chunks
    IN  IF c.idx \in D THEN s
        ELSE [s EXCEPT !.chunks = [i \in D \cup {c.idx} |-> IF i = c.idx THEN c.data ELSE s.chunks[i]]]

(* handle_chunk: the first chunk of a name sets the total; a chunk of       *)
(* another total is refused, one already there ignored.                     *)
HandleChunk(state, c) ==
    LET s == IF state = None THEN [total |-> c.total, chunks |-> <<>>] ELSE state
        D == DOMAIN s.chunks
    IN  IF s.total # c.total \/ c.idx \in D THEN s
        ELSE [s EXCEPT !.chunks = [i \in D \cup {c.idx} |-> IF i = c.idx THEN c.data ELSE s.chunks[i]]]

(* start_chunk_expiry_task: a set whose first chunk is five minutes old     *)
(* goes, however recent its last one.                                       *)
Expire(p, a) ==
    /\ assembly[p][a] # None
    /\ Fault
    /\ assembly' = [assembly EXCEPT ![p][a] = None]
    /\ UNCHANGED <<latest, proxyVars, wait, pulled>>

-----------------------------------------------------------------------------
(* The proxy. *)

(* The subscription's handler, one message at a time: it waits for a place  *)
(* in containerChan, for at most thirty seconds.                            *)
Handle ==
    /\ requests # <<>>
    /\ Len(containerChan) < ChanSize
    /\ containerChan' = Append(containerChan, Head(requests))
    /\ requests' = Tail(requests)
    /\ UNCHANGED <<latest, fetching, activeFetches, fetches, dataChan, assembly, wait, pulled, lastSent, faults>>

HandleTimesOut ==
    /\ requests # <<>>
    /\ Len(containerChan) = ChanSize
    /\ requests' = Tail(requests)
    /\ UNCHANGED <<latest, containerChan, fetching, activeFetches, fetches, dataChan, assembly, wait,
                   pulled, lastSent, faults>>

(* StreamHTTP drops a request above the limit or for a name being fetched. *)
Takes(a) == activeFetches < MaxFetches /\ a \notin fetching

StreamHTTP ==
    /\ containerChan # <<>>
    /\ containerChan' = Tail(containerChan)
    /\ LET a == Head(containerChan) IN
       IF Takes(a)
       THEN /\ activeFetches' = activeFetches + 1
            /\ fetching' = fetching \cup {a}
            /\ fetches' = [fetches EXCEPT ![a] = <<>>]
       ELSE UNCHANGED <<fetching, activeFetches, fetches>>
    /\ UNCHANGED <<latest, requests, dataChan, assembly, wait, pulled, lastSent, faults>>

(* Mutant: the goroutine leaves the counter behind. *)
MutEnded(a) ==
    /\ fetching' = fetching \ {a}
    /\ activeFetches' = activeFetches
    /\ fetches' = [fetches EXCEPT ![a] = None]

(* Mutant: the goroutine leaves the name behind. *)
MutEndedName(a) ==
    /\ fetching' = fetching
    /\ activeFetches' = activeFetches - 1
    /\ fetches' = [fetches EXCEPT ![a] = None]

(* The deferred function of a fetch goroutine. *)
Ended(a) ==
    /\ fetching' = fetching \ {a}
    /\ activeFetches' = activeFetches - 1
    /\ fetches' = [fetches EXCEPT ![a] = None]

(* FetchFromReg: the layer of the version tagged latest now, in chunks; an  *)
(* error, or a manifest without a layer, ends the goroutine.                *)
FetchFromReg(a) ==
    /\ fetches[a] = <<>>
    /\ \/ /\ Bytes(latest[a]) # <<>>
          /\ fetches' = [fetches EXCEPT ![a] = CreateChunks(a, Bytes(latest[a]))]
          /\ UNCHANGED <<fetching, activeFetches, faults>>
       \/ Bytes(latest[a]) = <<>> /\ Ended(a) /\ UNCHANGED faults
       \/ Fault /\ Ended(a)
    /\ UNCHANGED <<latest, requests, containerChan, dataChan, assembly, wait, pulled, lastSent>>

(* The goroutine hands one chunk to StreamMQTT when there is a place, and   *)
(* ends after the last.                                                     *)
SendChunk(a) ==
    /\ fetches[a] \notin {None, <<>>}
    /\ Len(dataChan) < ChunkBuffer
    /\ dataChan' = Append(dataChan, Head(fetches[a]))
    /\ IF Len(fetches[a]) = 1
       THEN Ended(a)
       ELSE fetches' = [fetches EXCEPT ![a] = Tail(@)] /\ UNCHANGED <<fetching, activeFetches>>
    /\ UNCHANGED <<latest, requests, containerChan, assembly, wait, pulled, lastSent, faults>>

(* StreamMQTT publishes a chunk; an error is logged and the chunk is gone.  *)
(* The chunk reaches every proplet unless the publish fails or a proplet is *)
(* not connected.                                                           *)
StreamMQTT ==
    /\ dataChan # <<>>
    /\ LET c == Head(dataChan) IN
       /\ \E got \in SUBSET Proplets :
            /\ IF got = Proplets THEN UNCHANGED faults ELSE Fault
            /\ assembly' = [p \in Proplets |->
                              IF p \in got THEN [assembly[p] EXCEPT ![c.app] = HandleChunk(@, c)]
                              ELSE assembly[p]]
       /\ lastSent' = [lastSent EXCEPT ![c.app] = [idx |-> c.idx, total |-> c.total]]
    /\ dataChan' = Tail(dataChan)
    /\ UNCHANGED <<latest, requests, containerChan, fetching, activeFetches, fetches, wait, pulled>>

Proxy == Handle \/ HandleTimesOut \/ StreamHTTP \/ StreamMQTT

Next ==
    \/ \E a \in Apps : Push(a) \/ FetchFromReg(a) \/ SendChunk(a)
    \/ \E t \in Tasks : Request(t) \/ Poll(t) \/ GiveUp(t)
    \/ \E p \in Proplets, a \in Apps : Expire(p, a)
    \/ Proxy

Spec == Init /\ [][Next]_vars

(* The proxy's callback, its two workers and the goroutine of each fetch    *)
(* run on, the proplets poll, and a task whose wait ended is started again  *)
(* (SF, as the bound on requests may hold it back).                         *)
FairSpec ==
    /\ Spec
    /\ WF_vars(Handle \/ HandleTimesOut) /\ WF_vars(StreamHTTP) /\ WF_vars(StreamMQTT)
    /\ \A a \in Apps : WF_vars(FetchFromReg(a) \/ SendChunk(a))
    /\ \A t \in Tasks : SF_vars(Request(t)) /\ WF_vars(Poll(t) \/ GiveUp(t))

-----------------------------------------------------------------------------
(* The chunks of a name that are published, waiting to be or still with     *)
(* their goroutine, in that order. *)
Stream(a) ==
    (IF lastSent[a] = None THEN <<>> ELSE <<lastSent[a]>>)
        \o SelectSeq(dataChan, LAMBDA c : c.app = a)
        \o (IF fetches[a] = None THEN <<>> ELSE fetches[a])

(* The limit on fetches counts exactly the goroutines that run: every end   *)
(* of one, the errors included, gives its place back (service.go:79), and   *)
(* the names marked as being fetched are theirs.                            *)
FetchesCounted ==
    /\ fetching = {a \in Apps : fetches[a] # None}
    /\ activeFetches = Cardinality(fetching)
    /\ activeFetches <= MaxFetches

(* The chunks of an image leave the proxy in order and never mixed with     *)
(* those of another fetch of the same name, although a fetch gives up its   *)
(* name while its last chunks are still in dataChan (service.go:99).        *)
ChunksInOrder ==
    \A a \in Apps : LET s == Stream(a) IN
        \A i \in 1..(Len(s) - 1) :
            \/ s[i + 1].idx = s[i].idx + 1 /\ s[i + 1].total = s[i].total
            \/ s[i].idx = s[i].total - 1 /\ s[i + 1].idx = 0

(* A binary that a task gets is one that was pushed: whole, its bytes in    *)
(* order and of one version (service.rs:1448).                              *)
PulledWasPushed ==
    \A t \in Tasks : pulled[t] # None => \E v \in DOMAIN Layers : pulled[t] = Bytes(v)

(* A task that is started again and again, the only one on its proplet to   *)
(* wait for the image, gets its binary: no lost chunk, failed fetch,        *)
(* request dropped as a duplicate (service.go:67) or expired set blocks the *)
(* name for good.  (Two tasks on one proplet share one set, and the poll of *)
(* one takes it from the other.)                                            *)
PullSucceeds == <>(\A t \in Tasks : pulled[t] # None)
=============================================================================
