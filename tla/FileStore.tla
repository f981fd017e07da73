------------------------------ MODULE FileStore ------------------------------
(***************************************************************************)
(* The two stores of the federated learning demo that keep a map in memory *)
(* in front of one file per key: the model registry (key: model version)   *)
(* and the local data store (key: proplet).  A POST writes memory, then    *)
(* the file; a GET that misses memory reads the file and then fills        *)
(* memory, each under its own lock acquisition.  The data store writes a   *)
(* temporary file and renames it, loads every file when it starts and      *)
(* seeds what is then missing; the registry writes in place, loads nothing *)
(* and seeds version 0 only.                                               *)
(***************************************************************************)
EXTENDS Naturals, FiniteSets

CONSTANTS
    DataStore,    \* TRUE for the local data store, FALSE for the registry
    Keys,
    Seeds,        \* keys that are seeded at start
    Writers, Readers,
    MaxPosts,     \* POSTs over all, numbered: the number is the value
    MaxCrashes

Absent == [kind |-> "absent"]
Torn == [kind |-> "torn"]       \* a file that does not parse
Seed == [kind |-> "seed"]
Val(n) == [kind |-> "val", n |-> n]

VARIABLES
    mem, file,    \* what the map and the directory hold for a key
    tmp,          \* the temporary file of a key
    post,         \* the POST each writer is in the middle of
    get,          \* the GET each reader is in the middle of
    served,       \* the answer of each reader's last GET, and what it may be
    posts,        \* POSTs started so far
    latest,       \* ghost: values of a key that no later POST has superseded
    crashes

vars == <<mem, file, tmp, post, get, served, posts, latest, crashes>>

Idle == [pc |-> "idle"]
NoAnswer == [answer |-> Absent]
Readable(f) == f.kind \notin {"absent", "torn"}
Posting(k) == {w \in Writers : post[w] # Idle /\ post[w].key = k}

-----------------------------------------------------------------------------
(* main up to the HTTP server.  loadDatasetsFromDisk keeps the files that  *)
(* parse; the seeds go to the keys that are then missing, to memory and,   *)
(* for the registry, only when there is no such file.                      *)
Loaded(f) == [k \in Keys |-> IF DataStore /\ Readable(f[k]) THEN f[k] ELSE Absent]

Seeded(f, k) ==
    k \in Seeds /\ IF DataStore THEN Loaded(f)[k] = Absent ELSE f[k] = Absent

Start(f) ==
    /\ mem' = [k \in Keys |-> IF Seeded(f, k) THEN Seed ELSE Loaded(f)[k]]
    /\ file' = [k \in Keys |-> IF Seeded(f, k) THEN Seed ELSE f[k]]
    /\ tmp' = [k \in Keys |-> IF Seeded(f, k) THEN Absent ELSE tmp[k]]

(* A first start on an empty directory.                                    *)
Init ==
    /\ mem = [k \in Keys |-> IF k \in Seeds THEN Seed ELSE Absent]
    /\ file = mem
    /\ tmp = [k \in Keys |-> Absent]
    /\ latest = [k \in Keys |-> {mem[k]}]
    /\ post = [w \in Writers |-> Idle]
    /\ get = [r \in Readers |-> Idle]
    /\ served = [r \in Readers |-> NoAnswer]
    /\ posts = 0
    /\ crashes = 0

-----------------------------------------------------------------------------
(* postModelHandler and postDatasetHandler, the part under the lock.       *)
Post(w, k) ==
    /\ post[w] = Idle
    /\ posts < MaxPosts
    /\ posts' = posts + 1
    /\ mem' = [mem EXCEPT ![k] = Val(posts')]
    /\ post' = [post EXCEPT ![w] = [pc |-> "open", key |-> k, val |-> Val(posts'), fd |-> "none"]]
    /\ latest' = [latest EXCEPT ![k] = @ \cup {Val(posts')}]
    /\ UNCHANGED <<file, tmp, get, served, crashes>>

(* os.WriteFile opens and truncates: the file itself, or the temporary     *)
(* one, which all POSTs of a key share.                                    *)
MutOpenFile(w) ==
    /\ post[w].pc = "open"
    /\ file' = [file EXCEPT ![post[w].key] = Torn]
    /\ post' = [post EXCEPT ![w].pc = "write", ![w].fd = "file"]
    /\ UNCHANGED <<mem, tmp, get, served, posts, latest, crashes>>

OpenFile(w) ==
    /\ post[w].pc = "open"
    /\ LET k == post[w].key IN
       IF DataStore THEN tmp' = [tmp EXCEPT ![k] = Torn] /\ UNCHANGED file
                    ELSE file' = [file EXCEPT ![k] = Torn] /\ UNCHANGED tmp
    /\ post' = [post EXCEPT ![w].pc = "write", ![w].fd = IF DataStore THEN "tmp" ELSE "file"]
    /\ UNCHANGED <<mem, get, served, posts, latest, crashes>>

(* os.WriteFile writes the content.  Two that write one file at a time may *)
(* leave a mixture.                                                        *)
Content(w) ==
    IF \E x \in Posting(post[w].key) \ {w} : post[x].pc = "write" /\ post[x].fd = post[w].fd
    THEN {post[w].val, Torn} ELSE {post[w].val}

(* A POST that ends and overlaps no other one supersedes all before it.    *)
Supersedes(w) ==
    [latest EXCEPT ![post[w].key] =
        IF Posting(post[w].key) = {w} /\ mem[post[w].key] = post[w].val THEN {post[w].val} ELSE @]

WriteFile(w) ==
    /\ post[w].pc = "write"
    /\ \E c \in Content(w) :
         IF post[w].fd = "tmp" THEN tmp' = [tmp EXCEPT ![post[w].key] = c] /\ UNCHANGED file
                               ELSE file' = [file EXCEPT ![post[w].key] = c] /\ UNCHANGED tmp
    /\ IF DataStore THEN post' = [post EXCEPT ![w].pc = "rename"] /\ UNCHANGED latest
                    ELSE post' = [post EXCEPT ![w] = Idle] /\ latest' = Supersedes(w)
    /\ UNCHANGED <<mem, get, served, posts, crashes>>

(* os.Rename in saveDatasetAtomic: who has the temporary file open now     *)
(* writes to the dataset.  It may fail, and does without a temporary file. *)
Rename(w) ==
    /\ post[w].pc = "rename"
    /\ LET k == post[w].key IN
       \/ post' = [post EXCEPT ![w].pc = "remove"] /\ UNCHANGED <<file, tmp, latest>>
       \/ /\ tmp[k] # Absent
          /\ file' = [file EXCEPT ![k] = tmp[k]]
          /\ tmp' = [tmp EXCEPT ![k] = Absent]
          /\ latest' = Supersedes(w)
          /\ post' = [x \in Writers |->
                        IF x = w THEN Idle
                        ELSE IF x \in Posting(k) /\ post[x].fd = "tmp" /\ post[x].pc = "write"
                        THEN [post[x] EXCEPT !.fd = "file"] ELSE post[x]]
    /\ UNCHANGED <<mem, get, served, posts, crashes>>

(* The clean-up after a failed rename removes whatever has that name now.  *)
RemoveTemp(w) ==
    /\ post[w].pc = "remove"
    /\ tmp' = [tmp EXCEPT ![post[w].key] = Absent]
    /\ post' = [post EXCEPT ![w] = Idle]
    /\ UNCHANGED <<mem, file, get, served, posts, latest, crashes>>

(* getModelHandler and getDatasetHandler: a hit is answered.               *)
Answer(r, k, v, allowed) ==
    served' = [served EXCEPT ![r] = [key |-> k, answer |-> v, allowed |-> allowed]]

Get(r, k) ==
    /\ get[r] = Idle
    /\ IF mem[k] # Absent
       THEN Answer(r, k, mem[k], latest[k]) /\ UNCHANGED get
       ELSE /\ get' = [get EXCEPT ![r] = [pc |-> "read", key |-> k, from |-> latest[k]]]
            /\ UNCHANGED served
    /\ UNCHANGED <<mem, file, tmp, post, posts, latest, crashes>>

(* A miss reads the file: not found and invalid content end the request.   *)
ReadFile(r) ==
    /\ get[r].pc = "read"
    /\ LET k == get[r].key IN
       IF Readable(file[k])
       THEN /\ get' = [get EXCEPT ![r] = [pc |-> "fill", key |-> k, val |-> file[k],
                                          from |-> get[r].from]]
            /\ UNCHANGED served
       ELSE /\ get' = [get EXCEPT ![r] = Idle]
            /\ served' = [served EXCEPT ![r] = NoAnswer]
    /\ UNCHANGED <<mem, file, tmp, post, posts, latest, crashes>>

(* It then puts what it read into memory, whatever is there by now.        *)
Fill(r) ==
    /\ get[r].pc = "fill"
    /\ mem' = [mem EXCEPT ![get[r].key] = get[r].val]
    /\ get' = [get EXCEPT ![r] = Idle]
    /\ Answer(r, get[r].key, get[r].val, get[r].from \cup latest[get[r].key])
    /\ UNCHANGED <<file, tmp, post, posts, latest, crashes>>

(* The process dies and starts again.                                      *)
CrashRestart ==
    /\ crashes < MaxCrashes
    /\ crashes' = crashes + 1
    /\ Start(file)
    /\ post' = [w \in Writers |-> Idle]
    /\ get' = [r \in Readers |-> Idle]
    /\ UNCHANGED <<served, posts, latest>>

Next ==
    \/ \E w \in Writers : \/ \E k \in Keys : Post(w, k)
                          \/ OpenFile(w) \/ WriteFile(w) \/ Rename(w) \/ RemoveTemp(w)
    \/ \E r \in Readers : ReadFile(r) \/ Fill(r) \/ \E k \in Keys : Get(r, k)
    \/ CrashRestart

Spec == Init /\ [][Next]_vars

-----------------------------------------------------------------------------
(* PROPERTIES *)

(* No crash loses a dataset or brings back an old one: the file of a key   *)
(* always holds a value that no completed POST has superseded, and a seed  *)
(* never takes the place of a posted dataset.                              *)
FileIsLatest == DataStore => \A k \in Keys : file[k] \in latest[k]

(* A GET of a participant's dataset answers a value that was not           *)
(* superseded when it began, or one posted while it ran.  A GET that       *)
(* misses can put a value into memory over a newer one; loading and        *)
(* seeding at start keep the participants' datasets from ever missing.     *)
GetIsRegular ==
    \A r \in Readers : served[r].answer # Absent /\ served[r].key \in Seeds =>
        served[r].answer \in served[r].allowed

(* The registry writes in place, so a crash may leave a version that no    *)
(* longer parses; but a file is torn only while its POST is in progress or *)
(* after a crash, and then memory has the version until the restart.       *)
TornIsCovered ==
    \A k \in Keys : file[k] = Torn => crashes > 0 \/ (Posting(k) # {} /\ mem[k] # Absent)
=============================================================================
