----------------------- MODULE AdmissionJournalProofs -----------------------
(***************************************************************************)
(* TLAPS proofs about AdmissionJournal, for any set of clients, any policy *)
(* Accepts, any capacities and any number of calls and crashes.            *)
(***************************************************************************)
EXTENDS AdmissionJournal, SequenceTheorems, WellFoundedInduction, TLAPS

(* The inductive invariant, in five layers.                                 *)

JournalRecord == [id : Nat, clients : Seq(Clients), whole : BOOLEAN]

EpochBatch == [id : Nat, clients : Seq(Clients)]

CommandType == [kind : {"Intent", "Epoch", "Barrier"}, clients : Seq(Clients)]

ImageType == [journal : Seq(JournalRecord), count : Nat, world : Seq(Seq(Clients)),
              valid : BOOLEAN, quiet : BOOLEAN]

Phase == {"down", "opensync", "replay", "fill", "overlap", "claim", "submit", "apply",
          "materialize", "complete", "repair", "repairsync", "stopped"}

\* What the worker has put aside and what is in the channel, in the order in
\* which it takes them.
Commands == pending \o queue

\* Everything that has been claimed or sent and not yet answered.
Staged ==
    ClientsOf(Commands) \cup ToSet(batch) \cup ToSet(inflight.clients)
        \cup ToSet(held.clients) \cup ClientsOf(backlog)

-----------------------------------------------------------------------------
(* The flow of commands: where a ticket without an answer can be.            *)

ChannelTyped ==
    /\ sender \in BOOLEAN /\ mutex \in BOOLEAN
    /\ queue \in Seq(CommandType) /\ pending \in Seq(CommandType)
    /\ client \in [Clients -> {"ready", "ticket"}]
    /\ outcome \in [Clients -> {"None", "Accepted", "Rejected", "Failed", "Stopped", "Lost"}]
    /\ before \subseteq Clients

WorkerTyped ==
    /\ barrier \in BOOLEAN /\ disconnected \in BOOLEAN /\ doomed \in BOOLEAN
    /\ batch \in Seq(Clients) /\ backlog \in Seq(EpochBatch)
    /\ held \in EpochBatch /\ inflight \in EpochBatch
    /\ worker \in Phase /\ kernel \in {"none", "queued", "part", "written", "synced"}

FileTyped ==
    /\ file \in Seq(JournalRecord) /\ disk \in Seq(JournalRecord)
    /\ fileLen \in Nat /\ nextEpoch \in Nat /\ durableEpochs \in Nat
    /\ image.count \in Nat /\ diskImage.count \in Nat /\ "count" \in DOMAIN taken

FlowTyped == ChannelTyped /\ WorkerTyped /\ FileTyped

\* What the worker holds in each of its phases.
Phases ==
    /\ batch # <<>> => worker \in {"claim", "submit"}
    /\ held # NoEpoch => worker \in {"overlap", "claim", "submit", "materialize"}
    /\ worker \in {"overlap", "materialize"} => held # NoEpoch
    /\ inflight # NoEpoch => worker \in {"materialize", "complete", "repair", "repairsync"}
    /\ worker \in {"complete", "repair", "repairsync"} => inflight # NoEpoch
    /\ worker \in {"repair", "repairsync"} => kernel = "none"
    /\ kernel # "none" => inflight # NoEpoch
    /\ inflight # NoEpoch /\ worker \in {"materialize", "complete"} => kernel # "none"
    /\ doomed => worker \in {"complete", "repair", "repairsync", "stopped"}
    /\ ~Receiving => Commands = <<>> /\ backlog = <<>> /\ ~barrier
    /\ Alive => nextEpoch > 0
    /\ \A i \in 1..Len(backlog) : backlog[i] # NoEpoch

\* Only an epoch or a barrier is put aside, and only when a claim ends; a barrier
\* is the last command, and behind it the mutex keeps the channel empty.
Barriers ==
    /\ worker = "claim" => pending = <<>>
    /\ \A i \in 1..Len(pending) : pending[i].kind # "Intent"
    /\ mutex <=> caller \in {"sending", "waiting", "answered"}
    /\ caller # "idle" => Alive
    /\ \A i \in 1..Len(Commands) : Commands[i].kind = "Barrier" =>
          /\ i = Len(Commands) /\ caller = "waiting" /\ ~barrier
          /\ Commands[i].clients = <<>>
    /\ barrier => caller = "waiting" /\ Commands = <<>>

\* A ticket without an answer is somewhere in the worker's hands.
Located ==
    /\ \A c \in Clients : client[c] = "ticket" /\ outcome[c] = "None" => c \in Staged
    /\ caller = "waiting" => \A c \in before : client[c] = "ticket"
    /\ caller \in {"answered", "flushed"} => \A c \in before : outcome[c] # "None"

\* From a flush's answer until somebody submits or the call ends the worker does
\* nothing.
Idle ==
    caller = "answered" \/ (Snapshotting /\ ~raced) =>
        /\ Commands = <<>> /\ backlog = <<>> /\ ~barrier
        /\ worker \in {"fill", "apply", "stopped"}

\* The journal is written at the worker's offset.
Offset ==
    /\ Alive => fileLen <= Len(file)
    /\ kernel \in {"written", "synced"} => Len(file) = fileLen + 1

Flow == FlowTyped /\ Phases /\ Barriers /\ Located /\ Idle /\ Offset

-----------------------------------------------------------------------------
(* The journal on storage, and the worker's view of it.                      *)

\* A journal recovery accepts, torn record included.
Readable(f) ==
    /\ \A i \in 1..Len(f) : ~f[i].whole => i = Len(f)
    /\ \A i \in 1..Len(f) : f[i].id = i

AllWhole(f) == \A i \in 1..Len(f) : f[i].whole

StorageTyped ==
    /\ image \in ImageType /\ diskImage \in ImageType /\ taken \in ImageType
    /\ appliedEpochs \in Nat
    /\ current \in Seq(Seq(Clients))

Recoverable ==
    /\ Readable(file) /\ Readable(disk)
    /\ worker \in {"opensync", "replay"} => AllWhole(file)

\* The worker's offset ends the epochs it has certified.
Durable ==
    Alive => /\ durableEpochs = fileLen /\ appliedEpochs <= fileLen
             /\ \A i \in 1..fileLen : file[i].whole

\* Behind the offset there is at most the record of the write under way.
Writing ==
    /\ Receiving /\ inflight = NoEpoch => nextEpoch = fileLen + 1 /\ Len(file) = fileLen
    /\ inflight # NoEpoch =>
        /\ inflight.id = fileLen + 1 /\ nextEpoch = fileLen + 2
        /\ Len(file) <= fileLen + 1
        /\ Len(file) = fileLen + 1 => file[fileLen + 1].clients = inflight.clients
    /\ kernel \in {"written", "synced"} => file[fileLen + 1] = Record(inflight)
    /\ kernel = "synced" => disk = file
    /\ worker = "repairsync" => Len(file) = fileLen

\* Durable epochs whose verdicts are still due.
Unapplied == IF held = NoEpoch THEN backlog ELSE <<held>> \o backlog

\* They are the epochs of the journal between what is applied and the offset.
Aligned ==
    Receiving /\ ~doomed =>
        /\ appliedEpochs + Len(Unapplied) = fileLen
        /\ \A i \in 1..Len(Unapplied) : file[appliedEpochs + i] = Record(Unapplied[i])

GoodImage(im) == im.valid /\ im.quiet =>
    /\ Readable(im.journal) /\ AllWhole(im.journal) /\ im.count = Len(im.journal)

\* A quiet image is of a whole journal; while one is taken and nobody submits,
\* nothing is under way.  Of a raced one nothing is known.
Images ==
    /\ GoodImage(image) /\ GoodImage(diskImage)
    /\ caller = "answered" \/ (Snapshotting /\ ~raced) =>
          appliedEpochs = fileLen /\ Len(file) = fileLen
    /\ caller = "journal" /\ ~raced => taken.journal = file

Shape == StorageTyped /\ Recoverable /\ Durable /\ Writing /\ Aligned /\ Images

-----------------------------------------------------------------------------
(* Clients keep the order of the channel all the way into the journal.       *)

Settled == SubSeq(file, 1, fileLen)

\* What has been sent and is not yet written.
Upcoming == ToSet(inflight.clients) \cup ToSet(batch) \cup ClientsOf(Commands)

Admitted ==
    /\ admitted \in Seq(Clients)
    /\ \A x, y \in 1..Len(admitted) : admitted[x] = admitted[y] => x = y
    /\ \A c \in Clients : client[c] = "ticket" <=> c \in ToSet(admitted)
    /\ ClientsOf(file) \cup ClientsOf(disk) \cup Upcoming \subseteq ToSet(admitted)

Sequenced ==
    /\ InOrder(file) /\ InOrder(disk) /\ InOrder(Commands)
    /\ Chronological(batch) /\ Chronological(inflight.clients)
    /\ Apart(ClientsOf(Settled), Upcoming)
    /\ Apart(ToSet(inflight.clients), ToSet(batch) \cup ClientsOf(Commands))
    /\ Apart(ToSet(batch), ClientsOf(Commands))

Ordered == Admitted /\ Sequenced

-----------------------------------------------------------------------------
(* Receipts.                                                                 *)

Certified(c) == receipt[c] \notin {None, Err}

\* The first e records are the same on storage and disk, and will be kept.
Secured(e) ==
    /\ e \in 1..Len(file) /\ e <= Len(disk)
    /\ \A j \in 1..e : file[j] = disk[j]
    /\ file[e].whole
    /\ Alive => e <= fileLen

Certificate(c) ==
    /\ Secured(receipt[c][1])
    /\ receipt[c][2] \in 1..Len(file[receipt[c][1]].clients)
    /\ file[receipt[c][1]].clients[receipt[c][2]] = c

Certificates == \A c \in Clients : Certified(c) => Certificate(c)

Refusals ==
    \A c \in Clients : receipt[c] = Err =>
        lame \/ c \notin ClientsOf(file) \cup ClientsOf(disk)

\* What is not yet durable has no receipt, and before its submission it is in no
\* journal either.
Unanswered ==
    /\ \A c \in Clients : client[c] = "ready" => receipt[c] = None
    /\ \A c \in Upcoming : receipt[c] = None

Waiting == ToSet(batch) \cup ClientsOf(Commands)

Unwritten == Waiting \cap (ClientsOf(file) \cup ClientsOf(disk)) = {}

\* What is durable and not yet applied has the receipt of its place.
Notices ==
    Receiving /\ ~doomed =>
        \A k \in (appliedEpochs + 1)..fileLen : \A p \in 1..Len(file[k].clients) :
            receipt[file[k].clients[p]] = <<k, p>>

ReceiptsTyped == receipt \in [Clients -> {None, Err} \cup (Nat \X Nat)]

Receipts == ReceiptsTyped /\ Certificates /\ Refusals /\ Unanswered /\ Unwritten /\ Notices

-----------------------------------------------------------------------------
(* The world and the verdicts.                                               *)

Judged ==
    \A c \in Clients : outcome[c] \in {"Accepted", "Rejected"} =>
        /\ Certified(c)
        /\ outcome[c] = "Accepted" <=>
              c \in Facts(Projection(SubSeq(file, 1, receipt[c][1])))

ImageWorlds ==
    /\ image.valid /\ image.quiet => image.world = Projection(image.journal)
    /\ diskImage.valid /\ diskImage.quiet =>
          diskImage.world = Projection(diskImage.journal)
    /\ caller \in {"world", "journal"} /\ ~raced => taken.world = current

Verdicts == JournalIsAuthoritative /\ Judged /\ ImageWorlds

-----------------------------------------------------------------------------
(* Sequences, and the clients in them.                                       *)

LEMMA SeqOfFcn ==
    ASSUME NEW S, NEW n \in Nat, NEW f \in [1..n -> S]
    PROVE  f \in Seq(S) /\ Len(f) = n
<1>1. f \in Seq(S)
  BY SeqDef
<1>2. DOMAIN f = 1..Len(f) /\ Len(f) \in Nat
  BY <1>1, LenProperties
<1>3. 1..Len(f) = 1..n
  BY <1>2
<1> QED BY <1>1, <1>2, <1>3

LEMMA HeadTailFacts ==
    ASSUME NEW S, NEW q \in Seq(S), q # <<>>
    PROVE  /\ Len(q) \in Nat /\ Len(q) > 0
           /\ Head(q) = q[1] /\ q[1] \in S
           /\ Tail(q) \in Seq(S) /\ Len(Tail(q)) = Len(q) - 1
           /\ \A i \in 1..Len(Tail(q)) : i + 1 \in 1..Len(q) /\ Tail(q)[i] = q[i + 1]
<1>1. Len(q) \in Nat /\ Len(q) # 0
  BY EmptySeq, LenProperties
<1>2. 1 \in 1..Len(q)
  BY <1>1
<1>3. Head(q) = q[1] /\ q[1] \in S
  BY <1>2, ElementOfSeq, HeadTailProperties
<1> QED BY <1>1, <1>3, HeadTailProperties

LEMMA AppendFacts ==
    ASSUME NEW S, NEW q \in Seq(S), NEW x \in S
    PROVE  /\ Append(q, x) \in Seq(S) /\ Len(q) \in Nat
           /\ Len(Append(q, x)) = Len(q) + 1
           /\ \A i \in 1..Len(q) : Append(q, x)[i] = q[i]
           /\ Append(q, x)[Len(q) + 1] = x
BY AppendProperties, LenProperties

\* The first n elements of a sequence.
LEMMA PrefixFacts ==
    ASSUME NEW S, NEW s \in Seq(S), NEW n \in Nat, n <= Len(s)
    PROVE  /\ SubSeq(s, 1, n) \in Seq(S) /\ Len(SubSeq(s, 1, n)) = n
           /\ \A i \in 1..n : SubSeq(s, 1, n)[i] = s[i] /\ s[i] \in S
<1>1. \A i \in 1..n : s[i] \in S
  BY ElementOfSeq, LenProperties
<1> QED BY <1>1, SubSeqProperties

LEMMA ToSetFacts ==
    ASSUME NEW S, NEW s \in Seq(S)
    PROVE  /\ ToSet(s) \subseteq S
           /\ \A x : x \in ToSet(s) <=> \E i \in 1..Len(s) : s[i] = x
<1>1. DOMAIN s = 1..Len(s) /\ \A i \in 1..Len(s) : s[i] \in S
  BY LenProperties, ElementOfSeq
<1> QED BY <1>1 DEF ToSet

LEMMA ToSetEmpty == ToSet(<<>>) = {}
<1>1. DOMAIN <<>> = {}
  OBVIOUS
<1> QED BY <1>1 DEF ToSet

LEMMA ToSetOne ==
    ASSUME NEW x
    PROVE  ToSet(<<x>>) = {x}
<1>1. <<x>> \in Seq({x}) /\ Len(<<x>>) = 1 /\ <<x>>[1] = x
  OBVIOUS
<1>2. ToSet(<<x>>) \subseteq {x}
  BY <1>1, ToSetFacts, Zenon
<1>3. DOMAIN <<x>> = 1..1
  OBVIOUS
<1>4. x \in ToSet(<<x>>)
  BY <1>1, <1>3 DEF ToSet
<1> QED BY <1>2, <1>4

LEMMA ToSetConcat ==
    ASSUME NEW S, NEW s \in Seq(S), NEW t \in Seq(S)
    PROVE  ToSet(s \o t) = ToSet(s) \cup ToSet(t)
<1>1. /\ s \o t \in Seq(S)
      /\ Len(s \o t) = Len(s) + Len(t) /\ Len(s) \in Nat /\ Len(t) \in Nat
      /\ \A i \in 1..Len(s) : (s \o t)[i] = s[i]
      /\ \A i \in 1..Len(t) : (s \o t)[Len(s) + i] = t[i]
      /\ \A i \in 1..(Len(s) + Len(t)) : i \in 1..Len(s) \/ i - Len(s) \in 1..Len(t)
  BY ConcatProperties, LenProperties
<1>2. ASSUME NEW x, x \in ToSet(s \o t)  PROVE x \in ToSet(s) \/ x \in ToSet(t)
  <2>0. \E i \in 1..Len(s \o t) : (s \o t)[i] = x
    BY <1>1, <1>2, ToSetFacts, Zenon
  <2>1. PICK i \in 1..(Len(s) + Len(t)) : (s \o t)[i] = x
    BY <1>1, <2>0
  <2>2. CASE i \in 1..Len(s)
    BY <1>1, <2>1, <2>2, ToSetFacts
  <2>3. CASE i - Len(s) \in 1..Len(t)
    <3>1. t[i - Len(s)] = x
      BY <1>1, <2>1, <2>3
    <3> QED BY <2>3, <3>1, ToSetFacts
  <2> QED BY <1>1, <2>1, <2>2, <2>3
<1>3. ASSUME NEW x, x \in ToSet(s)  PROVE x \in ToSet(s \o t)
  <2>1. PICK i \in 1..Len(s) : s[i] = x
    BY <1>3, ToSetFacts
  <2>2. i \in 1..Len(s \o t) /\ (s \o t)[i] = x
    BY <1>1, <2>1
  <2> QED BY <1>1, <2>2, ToSetFacts
<1>4. ASSUME NEW x, x \in ToSet(t)  PROVE x \in ToSet(s \o t)
  <2>1. PICK i \in 1..Len(t) : t[i] = x
    BY <1>4, ToSetFacts
  <2>2. Len(s) + i \in 1..Len(s \o t) /\ (s \o t)[Len(s) + i] = x
    BY <1>1, <2>1
  <2> QED BY <1>1, <2>2, ToSetFacts
<1> QED BY <1>2, <1>3, <1>4

LEMMA ClientsOfFacts ==
    ASSUME NEW T, NEW s \in Seq(T)
    PROVE  \A c : c \in ClientsOf(s) <=> \E i \in 1..Len(s) : c \in ToSet(s[i].clients)
<1>1. DOMAIN s = 1..Len(s)
  BY LenProperties
<1> QED BY <1>1 DEF ClientsOf

LEMMA ClientsOfEmpty == ClientsOf(<<>>) = {}
<1>1. <<>> \in Seq({}) /\ Len(<<>>) = 0
  BY EmptySeq
<1>2. \A c : c \in ClientsOf(<<>>) <=> \E i \in 1..Len(<<>>) : c \in ToSet(<<>>[i].clients)
  BY <1>1, ClientsOfFacts, Zenon
<1>3. 1..Len(<<>>) = {}
  BY <1>1
<1> QED BY <1>2, <1>3, Zenon

LEMMA ClientsOfAppend ==
    ASSUME NEW T, NEW s \in Seq(T), NEW e \in T
    PROVE  ClientsOf(Append(s, e)) = ClientsOf(s) \cup ToSet(e.clients)
<1> DEFINE t == Append(s, e)
<1>1. /\ t \in Seq(T) /\ Len(t) = Len(s) + 1 /\ Len(s) \in Nat
      /\ \A i \in 1..Len(s) : t[i] = s[i]
      /\ t[Len(s) + 1] = e
  BY AppendFacts
<1> HIDE DEF t
<1>2. \A c : c \in ClientsOf(t) <=> \E i \in 1..Len(t) : c \in ToSet(t[i].clients)
  BY <1>1, ClientsOfFacts
<1>3. \A c : c \in ClientsOf(s) <=> \E i \in 1..Len(s) : c \in ToSet(s[i].clients)
  BY ClientsOfFacts
<1>4. 1..Len(t) = (1..Len(s)) \cup {Len(s) + 1}
  BY <1>1
<1>5. ClientsOf(t) = ClientsOf(s) \cup ToSet(e.clients)
  BY <1>1, <1>2, <1>3, <1>4
<1> QED BY <1>5 DEF t

LEMMA ClientsOfHeadTail ==
    ASSUME NEW T, NEW s \in Seq(T), s # <<>>
    PROVE  ClientsOf(s) = ToSet(Head(s).clients) \cup ClientsOf(Tail(s))
<1> DEFINE t == Tail(s)
<1>1. /\ t \in Seq(T) /\ Len(t) = Len(s) - 1 /\ Len(s) \in Nat /\ Len(s) > 0
      /\ Head(s) = s[1]
      /\ \A i \in 1..Len(t) : t[i] = s[i + 1] /\ i + 1 \in 1..Len(s)
  BY HeadTailFacts
<1> HIDE DEF t
<1>2. \A c : c \in ClientsOf(t) <=> \E i \in 1..Len(t) : c \in ToSet(t[i].clients)
  BY <1>1, ClientsOfFacts
<1>3. \A c : c \in ClientsOf(s) <=> \E i \in 1..Len(s) : c \in ToSet(s[i].clients)
  BY ClientsOfFacts
<1>4. ASSUME NEW c, c \in ClientsOf(s)  PROVE c \in ToSet(s[1].clients) \/ c \in ClientsOf(t)
  <2>1. PICK i \in 1..Len(s) : c \in ToSet(s[i].clients)
    BY <1>3, <1>4
  <2>2. CASE i # 1
    <3>1. i - 1 \in 1..Len(t) /\ t[i - 1] = s[i]
      BY <1>1, <2>2
    <3> QED BY <1>2, <2>1, <3>1
  <2> QED BY <2>1, <2>2
<1>5. ASSUME NEW c, c \in ClientsOf(t)  PROVE c \in ClientsOf(s)
  BY <1>1, <1>2, <1>3, <1>5
<1>6. ASSUME NEW c, c \in ToSet(s[1].clients)  PROVE c \in ClientsOf(s)
  BY <1>1, <1>3, <1>6
<1>7. ClientsOf(s) = ToSet(s[1].clients) \cup ClientsOf(t)
  BY <1>4, <1>5, <1>6
<1> QED BY <1>1, <1>7 DEF t

-----------------------------------------------------------------------------
(* The commands the worker has put aside and those in the channel.           *)

LEMMA CommandsTyped ==
    ASSUME pending \in Seq(CommandType), queue \in Seq(CommandType)
    PROVE  /\ Commands \in Seq(CommandType)
           /\ pending = <<>> => Commands = queue
           /\ Commands = <<>> <=> pending = <<>> /\ queue = <<>>
           /\ ClientsOf(Commands) \subseteq Clients
           /\ \A i \in 1..Len(Commands) : Commands[i] \in CommandType
<1>1. Commands \in Seq(CommandType)
  BY ConcatProperties DEF Commands
<1>2. pending = <<>> => Commands = queue
  BY ConcatEmptySeq DEF Commands
<1>3. Commands = <<>> <=> pending = <<>> /\ queue = <<>>
  BY ConcatEqualIffEmpty DEF Commands
<1>4. \A i \in 1..Len(Commands) : Commands[i] \in CommandType
  BY <1>1, ElementOfSeq
<1>5. \A i \in 1..Len(Commands) : ToSet(Commands[i].clients) \subseteq Clients
  <2>1. \A x \in CommandType : x.clients \in Seq(Clients)
    BY DEF CommandType
  <2> QED BY <1>4, <2>1, ToSetFacts
<1>6. ClientsOf(Commands) \subseteq Clients
  BY <1>1, <1>5, ClientsOfFacts
<1> QED BY <1>1, <1>2, <1>3, <1>4, <1>6

LEMMA CommandsSent ==
    ASSUME pending \in Seq(CommandType), queue \in Seq(CommandType),
           NEW x \in CommandType, queue' = Append(queue, x), pending' = pending
    PROVE  /\ Commands' = Append(Commands, x) /\ Commands' \in Seq(CommandType)
           /\ queue' \in Seq(CommandType)
           /\ ClientsOf(Commands') = ClientsOf(Commands) \cup ToSet(x.clients)
<1>1. <<x>> \in Seq(CommandType) /\ Append(queue, x) = queue \o <<x>>
  BY AppendIsConcat
<1>2. Commands \in Seq(CommandType)
  BY CommandsTyped
<1>3. Append(Commands, x) = Commands \o <<x>> /\ Append(Commands, x) \in Seq(CommandType)
  BY <1>2, AppendIsConcat, AppendFacts
<1>4. pending \o (queue \o <<x>>) = (pending \o queue) \o <<x>>
  BY <1>1, ConcatAssociative
<1>5. Commands' = Append(Commands, x)
  BY <1>1, <1>3, <1>4 DEF Commands
<1>6. queue' \in Seq(CommandType)
  BY AppendFacts
<1> QED BY <1>2, <1>3, <1>5, <1>6, ClientsOfAppend

LEMMA CommandsTaken ==
    ASSUME pending \in Seq(CommandType), queue \in Seq(CommandType), Commands # <<>>,
           pending' = IF pending = <<>> THEN <<>> ELSE Tail(pending),
           queue' = IF pending = <<>> THEN Tail(queue) ELSE queue
    PROVE  /\ Commands' = Tail(Commands) /\ Commands' \in Seq(CommandType)
           /\ pending' \in Seq(CommandType) /\ queue' \in Seq(CommandType)
           /\ Head(Commands) \in CommandType
           /\ ClientsOf(Commands) = ToSet(Head(Commands).clients) \cup ClientsOf(Commands')
<1>1. CASE pending = <<>>
  <2>1. Commands = queue /\ queue # <<>>
    BY <1>1, CommandsTyped
  <2>2. pending' = <<>> /\ queue' = Tail(queue) /\ queue' \in Seq(CommandType)
    BY <1>1, <2>1, HeadTailFacts
  <2>3. Commands' = queue'
    BY <2>2, ConcatEmptySeq DEF Commands
  <2>4. Head(Commands) \in CommandType
    BY <2>1, HeadTailFacts
  <2> QED BY <1>1, <2>1, <2>2, <2>3, <2>4, ClientsOfHeadTail
<1>2. CASE pending # <<>>
  <2>1. /\ Len(pending) \in Nat /\ Len(pending) > 0 /\ Tail(pending) \in Seq(CommandType)
        /\ Len(Tail(pending)) = Len(pending) - 1
        /\ \A i \in 1..Len(Tail(pending)) : Tail(pending)[i] = pending[i + 1]
    BY <1>2, HeadTailFacts
  <2>2. pending' = Tail(pending) /\ queue' = queue
    BY <1>2
  <2>3. /\ Commands \in Seq(CommandType) /\ Len(queue) \in Nat
        /\ Len(Commands) = Len(pending) + Len(queue)
        /\ \A i \in 1..(Len(pending) + Len(queue)) :
              Commands[i] = IF i <= Len(pending) THEN pending[i] ELSE queue[i - Len(pending)]
    BY ConcatProperties, LenProperties DEF Commands
  <2> DEFINE r == Tail(pending)
  <2>4. /\ Commands' \in Seq(CommandType)
        /\ Len(Commands') = Len(r) + Len(queue)
        /\ \A i \in 1..(Len(r) + Len(queue)) :
              Commands'[i] = IF i <= Len(r) THEN r[i] ELSE queue[i - Len(r)]
    BY <2>1, <2>2, ConcatProperties DEF Commands
  <2>5. /\ Tail(Commands) \in Seq(CommandType) /\ Head(Commands) \in CommandType
        /\ Len(Tail(Commands)) = Len(Commands) - 1
        /\ \A i \in 1..Len(Tail(Commands)) : Tail(Commands)[i] = Commands[i + 1]
    BY <2>3, HeadTailFacts
  <2>6. Len(Tail(Commands)) = Len(Commands')
    BY <2>1, <2>3, <2>4, <2>5
  <2>7. ASSUME NEW i \in 1..Len(Commands')  PROVE Commands'[i] = Tail(Commands)[i]
    <3>1. Tail(Commands)[i] = Commands[i + 1] /\ i + 1 \in 1..(Len(pending) + Len(queue))
      BY <2>1, <2>3, <2>5, <2>6
    <3>2. Commands[i + 1] = IF i + 1 <= Len(pending) THEN pending[i + 1]
                            ELSE queue[i + 1 - Len(pending)]
      BY <2>3, <3>1
    <3>3. Commands'[i] = IF i <= Len(r) THEN r[i] ELSE queue[i - Len(r)]
      BY <2>4
    <3>4. CASE i <= Len(r)
      <4>1. i \in 1..Len(r) /\ i + 1 <= Len(pending) /\ r[i] = pending[i + 1]
        BY <2>1, <3>4
      <4> QED BY <3>1, <3>2, <3>3, <3>4, <4>1
    <3>5. CASE ~(i <= Len(r))
      <4>1. ~(i + 1 <= Len(pending)) /\ i - Len(r) = i + 1 - Len(pending)
        BY <2>1, <3>5
      <4> QED BY <3>1, <3>2, <3>3, <3>5, <4>1
    <3> QED BY <3>4, <3>5
  <2>8. Commands' = Tail(Commands)
    BY <2>4, <2>5, <2>6, <2>7, SeqEqual
  <2> QED BY <2>1, <2>2, <2>3, <2>4, <2>5, <2>8, ClientsOfHeadTail
<1> QED BY <1>1, <1>2

LEMMA CommandsClaimed ==
    ASSUME pending = <<>>, pending' = pending, queue \in Seq(CommandType), queue # <<>>,
           queue' = Tail(queue)
    PROVE  /\ Commands # <<>> /\ Commands' = Tail(Commands) /\ Head(Commands) = Head(queue)
           /\ queue' \in Seq(CommandType) /\ Commands' \in Seq(CommandType)
           /\ Head(Commands) \in CommandType
           /\ ClientsOf(Commands) = ToSet(Head(Commands).clients) \cup ClientsOf(Commands')
<1>1. pending \in Seq(CommandType)
  BY EmptySeq
<1>2. Commands = queue
  BY <1>1, CommandsTyped
<1>3. pending' = (IF pending = <<>> THEN <<>> ELSE Tail(pending))
      /\ queue' = (IF pending = <<>> THEN Tail(queue) ELSE queue)
  OBVIOUS
<1> QED BY <1>1, <1>2, <1>3, CommandsTaken

LEMMA CommandsSetAside ==
    ASSUME pending = <<>>, queue \in Seq(CommandType), queue # <<>>,
           pending' = Append(pending, Head(queue)), queue' = Tail(queue)
    PROVE  /\ Commands' = Commands
           /\ pending' = <<Head(queue)>> /\ pending' \in Seq(CommandType)
           /\ queue' \in Seq(CommandType)
<1>1. pending \in Seq(CommandType) /\ Commands = queue
  BY EmptySeq, CommandsTyped
<1>2. Head(queue) \in CommandType /\ Tail(queue) \in Seq(CommandType)
  BY HeadTailFacts
<1>3. pending' = <<Head(queue)>>
  OBVIOUS
<1>4. queue = <<Head(queue)>> \o Tail(queue)
  <2>1. Len(queue) \in 1..Len(queue) /\ 1 \in 1..Len(queue) /\ Head(queue) = queue[1]
    BY HeadTailFacts
  <2>2. SubSeq(queue, 1, Len(queue)) = <<queue[1]>> \o SubSeq(queue, 1 + 1, Len(queue))
    BY <2>1, SubSeqRecursiveFirst
  <2>3. SubSeq(queue, 1, Len(queue)) = queue /\ Tail(queue) = SubSeq(queue, 2, Len(queue))
    BY SubSeqFull, TailIsSubSeq
  <2> QED BY <2>1, <2>2, <2>3
<1>5. Commands' = Commands
  BY <1>1, <1>3, <1>4 DEF Commands
<1> QED BY <1>2, <1>3, <1>5

LEMMA CommandsGone ==
    ASSUME pending' = <<>>, queue' = <<>>
    PROVE  Commands' = <<>> /\ ClientsOf(Commands') = {}
<1>1. <<>> \in Seq({}) /\ <<>> \o <<>> = <<>>
  BY EmptySeq, ConcatEmptySeq
<1> QED BY <1>1, ClientsOfEmpty DEF Commands

-----------------------------------------------------------------------------
(* The journal file.                                                         *)

LEMMA RecordFields ==
    ASSUME NEW e \in EpochBatch
    PROVE  /\ Record(e) \in JournalRecord
           /\ Record(e).id = e.id /\ Record(e).clients = e.clients /\ Record(e).whole = TRUE
BY DEF EpochBatch, JournalRecord, Record

LEMMA TornRecord ==
    ASSUME NEW r \in JournalRecord, NEW w \in BOOLEAN
    PROVE  /\ [r EXCEPT !.whole = w] \in JournalRecord
           /\ [r EXCEPT !.whole = w].id = r.id
           /\ [r EXCEPT !.whole = w].clients = r.clients
           /\ [r EXCEPT !.whole = w].whole = w
BY DEF JournalRecord

LEMMA RecordEqual ==
    ASSUME NEW r \in JournalRecord, NEW q \in JournalRecord,
           r.id = q.id, r.clients = q.clients, r.whole = q.whole
    PROVE  r = q
BY DEF JournalRecord

\* A file cut after n records, the last possibly torn.
LEMMA CutFacts ==
    ASSUME NEW f \in Seq(JournalRecord), NEW n \in 0..Len(f), NEW torn \in BOOLEAN
    PROVE  /\ Cut(f, n, torn) \in Seq(JournalRecord)
           /\ Len(Cut(f, n, torn)) = n
           /\ \A i \in 1..n : /\ Cut(f, n, torn)[i].id = f[i].id
                              /\ Cut(f, n, torn)[i].clients = f[i].clients
           /\ \A i \in 1..n : (i < n \/ ~torn) => Cut(f, n, torn)[i] = f[i]
<1>1. \A i \in 1..n : f[i] \in JournalRecord
  BY ElementOfSeq
<1>2. \A i \in 1..n : /\ [f[i] EXCEPT !.whole = FALSE] \in JournalRecord
                      /\ [f[i] EXCEPT !.whole = FALSE].id = f[i].id
                      /\ [f[i] EXCEPT !.whole = FALSE].clients = f[i].clients
  BY <1>1, TornRecord
<1>3. \A i \in 1..n : /\ Cut(f, n, torn)[i] = IF torn /\ i = n
                                             THEN [f[i] EXCEPT !.whole = FALSE] ELSE f[i]
  BY DEF Cut
<1>4. Cut(f, n, torn) \in [1..n -> JournalRecord]
  BY <1>1, <1>2 DEF Cut
<1>5. Cut(f, n, torn) \in Seq(JournalRecord) /\ Len(Cut(f, n, torn)) = n
  BY <1>4, SeqOfFcn
<1>6. \A i \in 1..n : /\ Cut(f, n, torn)[i].id = f[i].id
                      /\ Cut(f, n, torn)[i].clients = f[i].clients
  BY <1>2, <1>3, Zenon
<1>7. ASSUME NEW i \in 1..n, i < n \/ ~torn PROVE Cut(f, n, torn)[i] = f[i]
  <2>1. i < n => i # n
    OBVIOUS
  <2>2. ~(torn /\ i = n)
    BY <1>7, <2>1, Zenon
  <2> QED BY <1>3, <2>2, Zenon
<1> QED BY <1>5, <1>6, <1>7

\* A disk image on the way to f: what disk and file already agree on stays.
LEMMA WritebackFacts ==
    ASSUME NEW d \in Seq(JournalRecord), NEW f \in Seq(JournalRecord),
           NEW img \in Writebacks(d, f)
    PROVE  /\ img \in Seq(JournalRecord) /\ Len(img) <= Len(f)
           /\ \A i \in 1..Len(img) : img[i].id = f[i].id /\ img[i].clients = f[i].clients
           /\ \A i \in 1..Len(img) : i < Len(img) => img[i] = f[i]
           /\ \A i \in 1..Len(f) :
                (i <= Len(d) /\ \A j \in 1..i : d[j] = f[j]) => i <= Len(img) /\ img[i] = f[i]
<1>1. PICK n \in 0..Len(f), torn \in BOOLEAN : img = Cut(f, n, torn)
  BY DEF Writebacks
<1>2. /\ img \in Seq(JournalRecord) /\ Len(img) = n
      /\ \A i \in 1..n : img[i].id = f[i].id /\ img[i].clients = f[i].clients
      /\ \A i \in 1..n : i < n => img[i] = f[i]
  BY <1>1, CutFacts
<1>4. \A i \in 1..Len(f) :
        (i <= Len(d) /\ \A j \in 1..i : d[j] = f[j]) => i <= Len(img) /\ img[i] = f[i]
  BY DEF Writebacks
<1>5. Len(img) <= Len(f)
  BY <1>2
<1> QED BY <1>2, <1>4, <1>5

\* What recovery keeps of a journal.
LEMMA GoodPrefixFacts ==
    ASSUME NEW f \in Seq(JournalRecord)
    PROVE  /\ GoodPrefix(f) \in Seq(JournalRecord)
           /\ Len(GoodPrefix(f)) \in Nat /\ Len(GoodPrefix(f)) <= Len(f)
           /\ Len(f) <= Len(GoodPrefix(f)) + 1
           /\ \A i \in 1..Len(GoodPrefix(f)) : GoodPrefix(f)[i] = f[i]
           /\ Len(GoodPrefix(f)) < Len(f) <=> TornTail(f)
           /\ GoodPrefix(f) = SubSeq(f, 1, Len(GoodPrefix(f)))
<1>1. CASE TornTail(f)
  <2>1. Len(f) \in Nat /\ Len(f) > 0
    BY <1>1, EmptySeq DEF TornTail
  <2>2. Len(f) - 1 \in Nat /\ Len(f) - 1 <= Len(f)
    BY <2>1
  <2>3. GoodPrefix(f) = SubSeq(f, 1, Len(f) - 1)
    BY <1>1 DEF GoodPrefix
  <2>4. /\ SubSeq(f, 1, Len(f) - 1) \in Seq(JournalRecord)
        /\ Len(SubSeq(f, 1, Len(f) - 1)) = Len(f) - 1
        /\ \A i \in 1..(Len(f) - 1) : SubSeq(f, 1, Len(f) - 1)[i] = f[i]
    BY <2>2, PrefixFacts
  <2> QED BY <1>1, <2>1, <2>3, <2>4
<1>2. CASE ~TornTail(f)
  <2>1. GoodPrefix(f) = f
    BY <1>2 DEF GoodPrefix
  <2> QED BY <1>2, <2>1, LenProperties, SubSeqFull
<1> QED BY <1>1, <1>2

\* The file once the record of an epoch has reached it, whole or in part.
LEMMA AtOffsetFacts ==
    ASSUME file \in Seq(JournalRecord), fileLen \in Nat, fileLen <= Len(file),
           NEW e \in EpochBatch, NEW w \in BOOLEAN
    PROVE  /\ AtOffset(e, w) \in Seq(JournalRecord) /\ Len(AtOffset(e, w)) = fileLen + 1
           /\ \A i \in 1..fileLen : AtOffset(e, w)[i] = file[i]
           /\ AtOffset(e, w)[fileLen + 1] \in JournalRecord
           /\ AtOffset(e, w)[fileLen + 1].id = e.id
           /\ AtOffset(e, w)[fileLen + 1].clients = e.clients
           /\ AtOffset(e, w)[fileLen + 1].whole = w
           /\ w = TRUE => AtOffset(e, w)[fileLen + 1] = Record(e)
<1> DEFINE h == SubSeq(file, 1, fileLen)
           r == [Record(e) EXCEPT !.whole = w]
<1>1. h \in Seq(JournalRecord) /\ Len(h) = fileLen /\ \A i \in 1..fileLen : h[i] = file[i]
  BY PrefixFacts
<1>2. r \in JournalRecord /\ r.id = e.id /\ r.clients = e.clients /\ r.whole = w
  BY RecordFields, TornRecord
<1>3. w = TRUE => r = Record(e)
  <2>1. Record(e) \in JournalRecord /\ Record(e).id = e.id /\ Record(e).clients = e.clients
        /\ Record(e).whole = TRUE
    BY RecordFields
  <2>2. r \in JournalRecord /\ r.id = e.id /\ r.clients = e.clients /\ r.whole = w
    BY <1>2
  <2> HIDE DEF r
  <2> QED BY <2>1, <2>2, RecordEqual, Zenon
<1>4. AtOffset(e, w) = h \o <<r>>
  BY DEF AtOffset
<1> HIDE DEF h, r
<1>5. h \o <<r>> = Append(h, r)
  BY <1>1, <1>2, AppendIsConcat
<1>6. /\ Append(h, r) \in Seq(JournalRecord) /\ Len(Append(h, r)) = fileLen + 1
      /\ \A i \in 1..fileLen : Append(h, r)[i] = h[i]
      /\ Append(h, r)[fileLen + 1] = r
  BY <1>1, <1>2, AppendFacts
<1> QED BY <1>1, <1>2, <1>3, <1>4, <1>5, <1>6

-----------------------------------------------------------------------------
(* The flow of commands is inductive, whatever the storage holds.            *)

LEMMA CommandsSame ==
    ASSUME UNCHANGED <<pending, queue>>
    PROVE  Commands' = Commands
BY DEF Commands

LEMMA StagedSame ==
    ASSUME UNCHANGED <<pending, queue, batch, inflight, held, backlog>>
    PROVE  Commands' = Commands /\ Staged' = Staged
BY DEF Commands, Staged

LEMMA StagedGone ==
    ASSUME Commands = <<>>, batch = <<>>, inflight = NoEpoch, held = NoEpoch, backlog = <<>>
    PROVE  Staged = {}
BY ToSetEmpty, ClientsOfEmpty DEF Staged, NoEpoch

\* Nothing is staged before the worker runs and after it has returned.
LEMMA NothingStaged ==
    ASSUME Phases, ~Receiving
    PROVE  Staged = {} /\ Commands = <<>> /\ backlog = <<>> /\ ~barrier
BY StagedGone DEF Phases, Receiving, Alive

LEMMA NoEpochTyped == NoEpoch \in EpochBatch /\ <<>> \in Seq(EpochBatch)
                      /\ <<>> \in Seq(CommandType) /\ <<>> \in Seq(Clients) /\ Len(<<>>) = 0
                      /\ <<>> \in Seq(JournalRecord)
<1>1. <<>> \in Seq(Clients) /\ <<>> \in Seq(EpochBatch) /\ <<>> \in Seq(CommandType)
      /\ <<>> \in Seq(JournalRecord)
      /\ Len(<<>>) = 0
  BY EmptySeq
<1> QED BY <1>1 DEF NoEpoch, EpochBatch

LEMMA InitFlow == Init => Flow
<1> SUFFICES ASSUME Init  PROVE Flow
  OBVIOUS
<1>1. ChannelTyped
  BY NoEpochTyped DEF Init, ChannelTyped
<1>2. WorkerTyped
  BY NoEpochTyped DEF Init, WorkerTyped, Phase
<1>3. FileTyped
  BY NoEpochTyped DEF Init, FileTyped, NoImage
<1>4. pending = <<>> /\ queue = <<>> /\ Commands = <<>>
  <2>1. <<>> \in Seq({}) /\ <<>> \o <<>> = <<>>
    BY EmptySeq, ConcatEmptySeq
  <2> QED BY <2>1 DEF Commands, Init
<1>5. Phases
  BY <1>4, NoEpochTyped DEF Init, Phases, Receiving, Alive
<1>6. Barriers
  BY <1>4, NoEpochTyped DEF Init, Barriers, Receiving, Alive
<1>7. Located
  BY DEF Init, Located
<1>8. Idle
  BY DEF Init, Idle, Snapshotting
<1>9. Offset
  BY DEF Init, Offset, Alive
<1> QED BY <1>1, <1>2, <1>3, <1>5, <1>6, <1>7, <1>8, <1>9 DEF Flow, FlowTyped

\* open starts a worker with empty hands.
LEMMA StartedFlow ==
    ASSUME Flow, NEW count \in Nat, NEW world, ~Receiving, ~Alive,
           Started(Len(file), count, world), UNCHANGED storage
    PROVE  Flow'
<1> USE DEF storage, images, ingress, answers, callerVars, workerVars, history
<1>1. Len(file) \in Nat
  BY LenProperties DEF Flow, FlowTyped, FileTyped
<1>2. Commands' = <<>> /\ pending' = <<>>
  BY CommandsGone DEF Started
<1>3. caller = "idle" /\ caller' = "idle"
  BY DEF Flow, Barriers, Started
<1>4. Staged = {}
  BY NothingStaged DEF Flow
<1>5. <<>> \in Seq(CommandType) /\ <<>> \in Seq(Clients) /\ <<>> \in Seq(EpochBatch)
      /\ NoEpoch \in EpochBatch /\ Len(<<>>) = 0
  BY NoEpochTyped
<1>6. ChannelTyped'
  BY <1>1, <1>2, <1>3, <1>4, <1>5 DEF Started, Flow, FlowTyped, ChannelTyped
<1>7. WorkerTyped'
  BY <1>1, <1>2, <1>3, <1>4, <1>5 DEF Started, Flow, FlowTyped, WorkerTyped, Phase
<1>8. FileTyped'
  BY <1>1, <1>2, <1>3, <1>4, <1>5 DEF Started, Flow, FlowTyped, FileTyped
<1>9. Phases'
  BY <1>1, <1>2, <1>3, <1>4, <1>5 DEF Started, Flow, FlowTyped, WorkerTyped,
    FileTyped, Phases, Receiving, Alive
<1>10. Barriers'
  BY <1>1, <1>2, <1>3, <1>4, <1>5 DEF Started, Flow, FlowTyped, ChannelTyped,
    WorkerTyped, Barriers, Phases, Receiving, Alive
<1>11. Located'
  BY <1>1, <1>2, <1>3, <1>4, <1>5 DEF Started, Flow, FlowTyped, ChannelTyped,
    WorkerTyped, Located
<1>12. Idle'
  BY <1>1, <1>2, <1>3, <1>4, <1>5 DEF Started, Flow, Idle, Snapshotting, Barriers
<1>13. Offset'
  BY <1>1, <1>2, <1>3, <1>4, <1>5 DEF Started, Flow, FlowTyped, FileTyped, Offset,
    Phases, Receiving, Alive
<1> QED BY <1>6, <1>7, <1>8, <1>9, <1>10, <1>11, <1>12, <1>13 DEF Flow, FlowTyped

\* recover_journal.
LEMMA OpeningFlow ==
    ASSUME Flow, OpenClean \/ OpenTruncate \/ OpenSync
    PROVE  Flow'
<1> USE DEF storage, images, ingress, answers, callerVars, workerVars, history
<1>1. Commands' = Commands /\ Staged' = Staged
  BY StagedSame DEF OpenClean, OpenTruncate, OpenSync
<1>2. ~Receiving /\ ~Alive /\ ~Receiving' /\ ~Alive'
  BY DEF OpenClean, OpenTruncate, OpenSync, Receiving, Alive
<1>3. caller = "idle" /\ caller' = "idle"
  BY <1>2 DEF Flow, Barriers, OpenClean, OpenTruncate, OpenSync
<1>4. file' \in Seq(JournalRecord)
  <2>1. file \in Seq(JournalRecord) /\ Len(file) \in Nat
    BY LenProperties DEF Flow, FlowTyped, FileTyped
  <2>2. CASE OpenTruncate
    <3>1. PICK n \in 1..Len(file) : file' = SubSeq(file, 1, n - 1)
      BY <2>2 DEF OpenTruncate
    <3>2. n - 1 \in Nat /\ n - 1 <= Len(file)
      BY <2>1
    <3> QED BY <2>1, <3>1, <3>2, PrefixFacts
  <2>3. CASE OpenClean \/ OpenSync
    BY <2>1, <2>3 DEF OpenClean, OpenSync
  <2> QED BY <2>2, <2>3
<1>5. ChannelTyped'
  BY <1>1, <1>2, <1>3, <1>4 DEF OpenClean, OpenTruncate, OpenSync, Flow, FlowTyped,
    ChannelTyped
<1>6. WorkerTyped'
  BY <1>1, <1>2, <1>3, <1>4 DEF OpenClean, OpenTruncate, OpenSync, Flow, FlowTyped,
    WorkerTyped, Phase
<1>7. FileTyped'
  BY <1>1, <1>2, <1>3, <1>4 DEF OpenClean, OpenTruncate, OpenSync, Flow, FlowTyped,
    FileTyped
<1>8. Phases'
  BY <1>1, <1>2, <1>3, <1>4 DEF OpenClean, OpenTruncate, OpenSync, Flow, FlowTyped,
    WorkerTyped, FileTyped, Phases, Receiving, Alive
<1>9. Barriers'
  BY <1>1, <1>2, <1>3, <1>4 DEF OpenClean, OpenTruncate, OpenSync, Flow, FlowTyped,
    ChannelTyped, WorkerTyped, Barriers, Phases, Receiving, Alive
<1>10. Located'
  BY <1>1, <1>2, <1>3, <1>4 DEF OpenClean, OpenTruncate, OpenSync, Flow, FlowTyped,
    ChannelTyped, WorkerTyped, Located
<1>11. Idle'
  BY <1>1, <1>2, <1>3, <1>4 DEF OpenClean, OpenTruncate, OpenSync, Flow, Idle,
    Snapshotting, Barriers
<1>12. Offset'
  BY <1>1, <1>2, <1>3, <1>4 DEF OpenClean, OpenTruncate, OpenSync, Flow, FlowTyped,
    FileTyped, Offset, Phases, Receiving, Alive
<1> QED BY <1>5, <1>6, <1>7, <1>8, <1>9, <1>10, <1>11, <1>12 DEF Flow, FlowTyped

LEMMA OpenFlow ==
    ASSUME Flow, Open
    PROVE  Flow'
<1> USE DEF storage, images, ingress, answers, callerVars, workerVars, history
<1>1. CASE OpenFromImage
  BY <1>1, StartedFlow DEF OpenFromImage, Flow, FlowTyped, FileTyped, Receiving, Alive
<1>2. CASE Replay
  <2>1. Len(file) \in Nat
    BY LenProperties DEF Flow, FlowTyped, FileTyped
  <2> QED BY <1>2, <2>1, StartedFlow DEF Replay, Flow, Receiving, Alive
<1>3. CASE OpenClean \/ OpenTruncate \/ OpenSync
  BY <1>3, OpeningFlow
<1> QED BY <1>1, <1>2, <1>3 DEF Open

LEMMA CallerFlow ==
    ASSUME Flow, Shutdown \/ FlushLock \/ FlushReturns \/ FlushStopped
    PROVE  Flow'
<1> USE DEF storage, images, ingress, answers, callerVars, workerVars, history
<1>1. Commands' = Commands /\ Staged' = Staged
  BY StagedSame DEF Shutdown, FlushLock, FlushReturns, FlushStopped
<1>2. ChannelTyped'
  BY <1>1 DEF Shutdown, FlushLock, FlushReturns, FlushStopped, Flow, FlowTyped,
    ChannelTyped
<1>3. WorkerTyped'
  BY <1>1 DEF Shutdown, FlushLock, FlushReturns, FlushStopped, Flow, FlowTyped,
    WorkerTyped, Phase
<1>4. FileTyped'
  BY <1>1 DEF Shutdown, FlushLock, FlushReturns, FlushStopped, Flow, FlowTyped,
    FileTyped
<1>5. Phases'
  BY <1>1 DEF Shutdown, FlushLock, FlushReturns, FlushStopped, Flow, FlowTyped,
    WorkerTyped, FileTyped, Phases, Receiving, Alive
<1>6. Barriers'
  BY <1>1 DEF Shutdown, FlushLock, FlushReturns, FlushStopped, Flow, FlowTyped,
    ChannelTyped, WorkerTyped, Barriers, Phases, Receiving, Alive
<1>7. Located'
  BY <1>1 DEF Shutdown, FlushLock, FlushReturns, FlushStopped, Flow, FlowTyped,
    ChannelTyped, WorkerTyped, Located
<1>8. Idle'
  BY <1>1 DEF Shutdown, FlushLock, FlushReturns, FlushStopped, Flow, Idle,
    Snapshotting, Barriers
<1>9. Offset'
  BY <1>1 DEF Shutdown, FlushLock, FlushReturns, FlushStopped, Flow, FlowTyped,
    FileTyped, Offset, Phases, Receiving, Alive
<1> QED BY <1>2, <1>3, <1>4, <1>5, <1>6, <1>7, <1>8, <1>9 DEF Flow, FlowTyped

LEMMA SnapshotFlow ==
    ASSUME Flow, CallEnds \/ SnapshotWorld \/ SnapshotJournal \/ SnapshotRename \/ SnapshotSync
    PROVE  Flow'
<1> USE DEF storage, images, ingress, answers, callerVars, workerVars, history
<1>1. Commands' = Commands /\ Staged' = Staged
  BY StagedSame DEF CallEnds, SnapshotWorld, SnapshotJournal, SnapshotRename,
    SnapshotSync
<1>2. ChannelTyped'
  BY <1>1 DEF CallEnds, SnapshotWorld, SnapshotJournal, SnapshotRename, SnapshotSync,
    Flow, FlowTyped, ChannelTyped
<1>3. WorkerTyped'
  BY <1>1 DEF CallEnds, SnapshotWorld, SnapshotJournal, SnapshotRename, SnapshotSync,
    Flow, FlowTyped, WorkerTyped, Phase
<1>4. FileTyped'
  BY DEF CallEnds, SnapshotWorld, SnapshotJournal, SnapshotRename, SnapshotSync,
    NoImage, Flow, FlowTyped, FileTyped
<1>5. Phases'
  BY <1>1 DEF CallEnds, SnapshotWorld, SnapshotJournal, SnapshotRename, SnapshotSync,
    Flow, FlowTyped, WorkerTyped, FileTyped, Phases, Receiving, Alive
<1>6. Barriers'
  BY <1>1 DEF CallEnds, SnapshotWorld, SnapshotJournal, SnapshotRename, SnapshotSync,
    Flow, FlowTyped, ChannelTyped, WorkerTyped, Barriers, Phases, Receiving, Alive
<1>7. Located'
  BY <1>1 DEF CallEnds, SnapshotWorld, SnapshotJournal, SnapshotRename, SnapshotSync,
    Flow, FlowTyped, ChannelTyped, WorkerTyped, Located
<1>8. Idle'
  BY <1>1 DEF CallEnds, SnapshotWorld, SnapshotJournal, SnapshotRename, SnapshotSync,
    Flow, Idle, Snapshotting, Barriers
<1>9. Offset'
  BY <1>1 DEF CallEnds, SnapshotWorld, SnapshotJournal, SnapshotRename, SnapshotSync,
    Flow, FlowTyped, FileTyped, Offset, Phases, Receiving, Alive
<1> QED BY <1>2, <1>3, <1>4, <1>5, <1>6, <1>7, <1>8, <1>9 DEF Flow, FlowTyped

LEMMA KernelFlow ==
    ASSUME Flow, KernelWritesPart \/ KernelWrites \/ KernelSyncs
    PROVE  Flow'
<1> USE DEF storage, images, ingress, answers, callerVars, workerVars, history
<1>1. Commands' = Commands /\ Staged' = Staged
  BY StagedSame DEF KernelWritesPart, KernelWrites, KernelSyncs
<1>2. inflight # NoEpoch /\ Alive /\ fileLen <= Len(file)
  BY DEF KernelWritesPart, KernelWrites, KernelSyncs, Flow, Phases, Alive, Offset
<1>3. AtOffset(inflight, TRUE) \in Seq(JournalRecord)
      /\ Len(AtOffset(inflight, TRUE)) = fileLen + 1
  BY <1>2, AtOffsetFacts DEF Flow, FlowTyped, FileTyped, WorkerTyped
<1>4. AtOffset(inflight, FALSE) \in Seq(JournalRecord)
      /\ Len(AtOffset(inflight, FALSE)) = fileLen + 1
  BY <1>2, AtOffsetFacts DEF Flow, FlowTyped, FileTyped, WorkerTyped
<1>5. file' \in Seq(JournalRecord) /\ disk' \in Seq(JournalRecord)
      /\ (file' = file \/ Len(file') = fileLen + 1)
  BY <1>3, <1>4 DEF KernelWritesPart, KernelWrites, KernelSyncs, Flow, FlowTyped,
    FileTyped
<1>6. UNCHANGED <<worker, inflight, held, batch, backlog, doomed, barrier, nextEpoch,
                  fileLen>>
      /\ UNCHANGED <<caller, mutex, pending>>
      /\ kernel # "none" /\ kernel' # "none"
  BY DEF KernelWritesPart, KernelWrites, KernelSyncs
<1>7. ChannelTyped'
  BY <1>1, <1>2, <1>3, <1>4, <1>5, <1>6 DEF KernelWritesPart, KernelWrites,
    KernelSyncs, Flow, FlowTyped, ChannelTyped
<1>8. WorkerTyped'
  BY <1>1, <1>2, <1>3, <1>4, <1>5, <1>6 DEF KernelWritesPart, KernelWrites,
    KernelSyncs, Flow, FlowTyped, WorkerTyped, Phase
<1>9. FileTyped'
  BY <1>5 DEF KernelWritesPart, KernelWrites, KernelSyncs, Flow, FlowTyped, FileTyped
<1>10. Phases'
  BY <1>1, <1>6 DEF Flow, Phases, Receiving, Alive
<1>11. Barriers'
  BY <1>1, <1>6 DEF Flow, Barriers, Alive
<1>12. Located'
  BY <1>1, <1>2, <1>3, <1>4, <1>5, <1>6 DEF KernelWritesPart, KernelWrites,
    KernelSyncs, Flow, FlowTyped, ChannelTyped, WorkerTyped, Located
<1>13. Idle'
  BY <1>1, <1>2, <1>3, <1>4, <1>5, <1>6 DEF KernelWritesPart, KernelWrites,
    KernelSyncs, Flow, Idle, Snapshotting, Barriers
<1>14. Offset'
  <2>1. fileLen' = fileLen /\ fileLen \in Nat
    BY <1>6 DEF Flow, FlowTyped, FileTyped
  <2>2. CASE KernelSyncs
    BY <1>2, <2>1, <2>2 DEF KernelSyncs, Flow, Offset
  <2>3. CASE KernelWritesPart \/ KernelWrites
    <3>1. Len(file') = fileLen + 1
      BY <1>3, <1>4, <2>3 DEF KernelWritesPart, KernelWrites
    <3> QED BY <2>1, <3>1 DEF Offset
  <2> QED BY <2>2, <2>3
<1> QED BY <1>7, <1>8, <1>9, <1>10, <1>11, <1>12, <1>13, <1>14 DEF Flow, FlowTyped

LEMMA WritebackFlow ==
    ASSUME Flow, Writeback
    PROVE  Flow'
<1> USE DEF storage, images, ingress, answers, callerVars, workerVars, history
<1>1. Commands' = Commands /\ Staged' = Staged
  BY StagedSame DEF Writeback
<1>2. \A img \in Writebacks(disk, file) : img \in Seq(JournalRecord)
  BY WritebackFacts DEF Flow, FlowTyped, FileTyped
<1>3. ChannelTyped'
  BY <1>1, <1>2 DEF Writeback, Flow, FlowTyped, ChannelTyped
<1>4. WorkerTyped'
  BY <1>1, <1>2 DEF Writeback, Flow, FlowTyped, WorkerTyped, Phase
<1>5. FileTyped'
  BY <1>1, <1>2 DEF Writeback, Flow, FlowTyped, FileTyped
<1>6. Phases'
  BY <1>1, <1>2 DEF Writeback, Flow, FlowTyped, WorkerTyped, FileTyped, Phases,
    Receiving, Alive
<1>7. Barriers'
  BY <1>1, <1>2 DEF Writeback, Flow, FlowTyped, ChannelTyped, WorkerTyped, Barriers,
    Phases, Receiving, Alive
<1>8. Located'
  BY <1>1, <1>2 DEF Writeback, Flow, FlowTyped, ChannelTyped, WorkerTyped, Located
<1>9. Idle'
  BY <1>1, <1>2 DEF Writeback, Flow, Idle, Snapshotting, Barriers
<1>10. Offset'
  BY <1>1, <1>2 DEF Writeback, Flow, FlowTyped, FileTyped, Offset, Phases, Receiving,
    Alive
<1> QED BY <1>3, <1>4, <1>5, <1>6, <1>7, <1>8, <1>9, <1>10 DEF Flow, FlowTyped

LEMMA CrashFlow ==
    ASSUME Flow, Crash, file' \in {file, disk}, disk' = disk,
           image' \in {image, diskImage}, diskImage' = diskImage
    PROVE  Flow'
<1> USE DEF storage, images, ingress, answers, callerVars, workerVars, history
<1>1. Commands' = <<>>
  BY CommandsGone DEF Crash
<1>2. Staged' = {}
  BY <1>1, ToSetEmpty, ClientsOfEmpty DEF Crash, Staged, NoEpoch
<1>3. <<>> \in Seq(CommandType) /\ <<>> \in Seq(Clients) /\ <<>> \in Seq(EpochBatch)
      /\ NoEpoch \in EpochBatch /\ Len(<<>>) = 0
  BY NoEpochTyped
<1>4. ChannelTyped'
  BY <1>1, <1>2, <1>3 DEF Crash, Flow, FlowTyped, ChannelTyped
<1>5. WorkerTyped'
  BY <1>1, <1>2, <1>3 DEF Crash, Flow, FlowTyped, WorkerTyped, Phase
<1>6. FileTyped'
  BY DEF Crash, NoImage, Flow, FlowTyped, FileTyped
<1>7. Phases'
  BY <1>1, <1>2, <1>3 DEF Crash, Flow, FlowTyped, WorkerTyped, FileTyped, Phases,
    Receiving, Alive
<1>8. Barriers'
  BY <1>1, <1>2, <1>3 DEF Crash, Flow, FlowTyped, ChannelTyped, WorkerTyped, Barriers,
    Phases, Receiving, Alive
<1>9. Located'
  BY <1>1, <1>2, <1>3 DEF Crash, Flow, FlowTyped, ChannelTyped, WorkerTyped, Located
<1>10. Idle'
  BY <1>1, <1>2, <1>3 DEF Crash, Flow, Idle, Snapshotting, Barriers
<1>11. Offset'
  BY <1>1, <1>2, <1>3 DEF Crash, Flow, FlowTyped, FileTyped, Offset, Phases,
    Receiving, Alive
<1> QED BY <1>4, <1>5, <1>6, <1>7, <1>8, <1>9, <1>10, <1>11 DEF Flow, FlowTyped

LEMMA SendFlow ==
    ASSUME Flow, NEW kind \in {"Intent", "Epoch"}, NEW clients \in Seq(Clients),
           Send(kind, clients)
    PROVE  Flow'
<1> USE DEF storage, images, ingress, answers, callerVars, workerVars, history
<1>1. [kind |-> kind, clients |-> clients] \in CommandType
  BY DEF CommandType
<1>2. Commands' = Append(Commands, [kind |-> kind, clients |-> clients])
      /\ queue' \in Seq(CommandType) /\ Commands \in Seq(CommandType)
      /\ ClientsOf(Commands') = ClientsOf(Commands) \cup ToSet(clients)
  <2>1. pending' = pending /\ queue' = Append(queue, [kind |-> kind, clients |-> clients])
    BY DEF Send
  <2> QED BY <1>1, <2>1, CommandsSent, CommandsTyped DEF Flow, FlowTyped, ChannelTyped
<1>3. Staged' = Staged \cup ToSet(clients)
  BY <1>2 DEF Send, Staged
<1>4. Len(Commands') = Len(Commands) + 1 /\ Len(Commands) \in Nat
      /\ Commands'[Len(Commands) + 1] = [kind |-> kind, clients |-> clients]
      /\ \A i \in 1..Len(Commands) : Commands'[i] = Commands[i]
  BY <1>1, <1>2, AppendFacts
<1>5. ~mutex /\ caller # "waiting" /\ caller' = caller /\ ~barrier
  BY DEF Send, Flow, Barriers
<1>6. UNCHANGED <<storage, images, callerVars, worker, workerVars, outcome>>
  BY DEF Send
<1>7. ChannelTyped'
  BY <1>1, <1>2, <1>3, <1>4, <1>5, <1>6 DEF Send, Flow, FlowTyped, ChannelTyped
<1>8. WorkerTyped'
  BY <1>6 DEF Flow, FlowTyped, WorkerTyped
<1>9. FileTyped'
  BY <1>6 DEF Flow, FlowTyped, FileTyped
<1>10. Phases'
  BY <1>6 DEF Send, Flow, Phases, Receiving, Alive
<1>11. Barriers'
  <2>1. \A i \in 1..Len(Commands') : Commands'[i].kind # "Barrier"
    BY <1>4, <1>5 DEF Flow, Barriers
  <2> QED BY <1>5, <1>6, <2>1 DEF Flow, Barriers, Alive
<1>12. Located'
  <2>1. \A c \in Clients : client'[c] = IF c \in ToSet(clients) THEN "ticket" ELSE client[c]
    BY DEF Send
  <2> QED BY <1>3, <1>5, <1>6, <2>1 DEF Flow, Located, FlowTyped, ChannelTyped
<1>13. Idle'
  BY <1>5, <1>6 DEF Send, Flow, Barriers, Idle, Snapshotting
<1>14. Offset'
  BY <1>6 DEF Flow, Offset, Alive
<1> QED BY <1>7, <1>8, <1>9, <1>10, <1>11, <1>12, <1>13, <1>14 DEF Flow, FlowTyped

LEMMA FlushSendFlow ==
    ASSUME Flow, FlushSend
    PROVE  Flow'
<1> USE DEF storage, images, ingress, answers, callerVars, workerVars, history
<1>1. [kind |-> "Barrier", clients |-> <<>>] \in CommandType
  BY NoEpochTyped DEF CommandType
<1>2. Commands' = Append(Commands, [kind |-> "Barrier", clients |-> <<>>])
      /\ queue' \in Seq(CommandType) /\ Commands \in Seq(CommandType)
      /\ ClientsOf(Commands') = ClientsOf(Commands)
  <2>1. pending' = pending /\ queue' = Append(queue, [kind |-> "Barrier", clients |-> <<>>])
    BY DEF FlushSend
  <2> QED BY <1>1, <2>1, CommandsSent, CommandsTyped, ToSetEmpty DEF Flow, FlowTyped, ChannelTyped
<1>3. Staged' = Staged
  BY <1>2 DEF FlushSend, Staged
<1>4. Len(Commands') = Len(Commands) + 1 /\ Len(Commands) \in Nat
      /\ Commands'[Len(Commands) + 1] = [kind |-> "Barrier", clients |-> <<>>]
      /\ \A i \in 1..Len(Commands) : Commands'[i] = Commands[i]
  BY <1>1, <1>2, AppendFacts
<1>5. caller = "sending" /\ mutex /\ caller' = "waiting" /\ ~barrier /\ Receiving
  BY DEF FlushSend, Flow, Barriers
<1>6. UNCHANGED <<storage, images, mutex, taken, worker, workerVars, outcome, client, sender>>
  BY DEF FlushSend
<1>7. ChannelTyped'
  BY <1>1, <1>2, <1>3, <1>4, <1>5, <1>6 DEF FlushSend, Flow, FlowTyped, ChannelTyped
<1>8. WorkerTyped'
  BY <1>6 DEF Flow, FlowTyped, WorkerTyped
<1>9. FileTyped'
  BY <1>6 DEF Flow, FlowTyped, FileTyped
<1>10. Phases'
  BY <1>5, <1>6 DEF Flow, Phases, Receiving, Alive
<1>11. Barriers'
  <2>1. \A i \in 1..Len(Commands) : Commands'[i].kind # "Barrier"
    BY <1>4, <1>5 DEF Flow, Barriers
  <2> QED BY <1>4, <1>5, <1>6, <2>1 DEF Flow, Barriers, Receiving, Alive
<1>12. Located'
  BY <1>3, <1>5, <1>6 DEF FlushSend, Flow, Located, FlowTyped, ChannelTyped
<1>13. Idle'
  BY <1>5 DEF Idle, Snapshotting
<1>14. Offset'
  BY <1>6 DEF Flow, Offset, Alive
<1> QED BY <1>7, <1>8, <1>9, <1>10, <1>11, <1>12, <1>13, <1>14 DEF Flow, FlowTyped

LEMMA WorkerTurnsFlow ==
    ASSUME Flow, NoCommand \/ ClaimEnds \/ CompleteFails \/ AnswerBarrier
    PROVE  Flow'
<1> USE DEF storage, images, ingress, answers, callerVars, workerVars, history
<1>1. Commands' = Commands /\ Staged' = Staged
  BY StagedSame DEF NoCommand, ClaimEnds, CompleteFails, AnswerBarrier
<1>2. worker = "apply" /\ barrier /\ backlog = <<>> => Staged = {} /\ Commands = <<>>
  BY StagedGone DEF Flow, Phases, Barriers
<1>3. ChannelTyped'
  BY DEF NoCommand, ClaimEnds, CompleteFails, AnswerBarrier, Flow, FlowTyped,
    ChannelTyped
<1>4. WorkerTyped'
  BY DEF NoCommand, ClaimEnds, CompleteFails, AnswerBarrier, Flow, FlowTyped,
    WorkerTyped, Phase, Room, Seeking, AfterSeeking
<1>5. FileTyped'
  BY DEF NoCommand, ClaimEnds, CompleteFails, AnswerBarrier, Flow, FlowTyped,
    FileTyped
<1>6. Phases'
  BY <1>1 DEF NoCommand, ClaimEnds, CompleteFails, AnswerBarrier, Flow, Phases,
    Seeking, AfterSeeking, Receiving, Alive
<1>7. Barriers'
  BY <1>1 DEF NoCommand, ClaimEnds, CompleteFails, AnswerBarrier, Flow, Barriers,
    Seeking, AfterSeeking, Receiving, Alive
<1>8. Located'
  BY <1>1, <1>2 DEF NoCommand, ClaimEnds, CompleteFails, AnswerBarrier, Flow,
    FlowTyped, ChannelTyped, Located, Barriers
<1>9. Idle'
  BY <1>1, <1>2 DEF NoCommand, ClaimEnds, CompleteFails, AnswerBarrier, Flow, Idle,
    Snapshotting, Seeking, AfterSeeking, Barriers
<1>10. Offset'
  BY DEF NoCommand, ClaimEnds, CompleteFails, AnswerBarrier, Flow, Offset, Phases,
    Seeking, AfterSeeking, Alive
<1> QED BY <1>3, <1>4, <1>5, <1>6, <1>7, <1>8, <1>9, <1>10 DEF Flow, FlowTyped

LEMMA TakeCommandFlow ==
    ASSUME Flow, TakeCommand
    PROVE  Flow'
<1> USE DEF storage, images, ingress, answers, callerVars, workerVars, history
<1>1. Commands # <<>> /\ Command = Head(Commands)
  BY DEF TakeCommand, Command, Commands
<1>2. Commands' = Tail(Commands) /\ Commands \in Seq(CommandType)
      /\ pending' \in Seq(CommandType) /\ queue' \in Seq(CommandType)
      /\ Command \in CommandType
      /\ ClientsOf(Commands) = ToSet(Command.clients) \cup ClientsOf(Commands')
  <2>1. pending' = (IF pending = <<>> THEN <<>> ELSE Tail(pending))
        /\ queue' = (IF pending = <<>> THEN Tail(queue) ELSE queue)
    BY DEF TakeCommand
  <2> QED BY <1>1, <2>1, CommandsTaken, CommandsTyped DEF Flow, FlowTyped, ChannelTyped
<1>3. Len(Commands) \in Nat /\ Len(Commands) > 0 /\ Command = Commands[1]
      /\ Len(Commands') = Len(Commands) - 1
      /\ \A i \in 1..Len(Commands') : i + 1 \in 1..Len(Commands) /\ Commands'[i] = Commands[i + 1]
  BY <1>1, <1>2, HeadTailFacts
<1>4. Command.kind \in {"Intent", "Epoch", "Barrier"} /\ Command.clients \in Seq(Clients)
  BY <1>2 DEF CommandType
<1>5. Command.kind = "Barrier" => Commands' = <<>> /\ Command.clients = <<>>
      /\ caller = "waiting"
  <2> SUFFICES ASSUME Command.kind = "Barrier"
               PROVE  Commands' = <<>> /\ Command.clients = <<>> /\ caller = "waiting"
    OBVIOUS
  <2>1. Len(Commands) = 1 /\ Commands[1].clients = <<>> /\ caller = "waiting"
    BY <1>3 DEF Flow, Barriers
  <2>2. Commands' \in Seq(CommandType) /\ Len(Commands') = 0
    BY <1>1, <1>2, <1>3, <2>1, HeadTailFacts
  <2> QED BY <1>3, <2>1, <2>2, EmptySeq
<1>6. /\ Command.kind = "Barrier" => worker' = AfterSeeking
      /\ Command.kind = "Intent" => worker' = "claim"
      /\ Command.kind = "Epoch" => worker' = "submit"
  BY DEF TakeCommand
<1>7. worker \in {"fill", "overlap"} /\ ~barrier /\ batch = <<>> /\ batch' = Command.clients
      /\ (barrier' <=> Command.kind = "Barrier") /\ barrier' \in BOOLEAN
  BY DEF TakeCommand, Seeking, Room, Flow, Phases
<1>8. worker = "fill" => AfterSeeking = "apply"
  BY DEF AfterSeeking
<1>9. worker = "overlap" => AfterSeeking = "materialize"
  BY DEF AfterSeeking
<1>10. UNCHANGED <<storage, images, sender, client, answers, callerVars, raced, backlog, held,
                  inflight, kernel, disconnected, doomed, nextEpoch, fileLen,
                  durableEpochs>>
  BY DEF TakeCommand
<1>11. Staged' = Staged
  BY <1>2, <1>7, <1>10, ToSetEmpty DEF Staged
<1>12. ChannelTyped'
  BY <1>2, <1>10 DEF Flow, FlowTyped, ChannelTyped
<1>13. WorkerTyped'
  BY <1>4, <1>6, <1>7, <1>8, <1>9, <1>10 DEF Flow, FlowTyped, WorkerTyped, Phase
<1>14. FileTyped'
  BY <1>10 DEF Flow, FlowTyped, FileTyped
<1>15. Phases'
  BY <1>4, <1>5, <1>6, <1>7, <1>8, <1>9, <1>10 DEF Flow, Phases, Receiving, Alive
<1>16. Barriers'
  <2>1. worker' = "claim" => pending' = <<>>
    <3> SUFFICES ASSUME worker' = "claim", pending' # <<>>  PROVE FALSE
      OBVIOUS
    <3>1. Command.kind = "Intent"
      BY <1>4, <1>6, <1>7, <1>8, <1>9
    <3>2. pending # <<>>
      BY DEF TakeCommand
    <3>3. Len(pending) \in Nat /\ Len(pending) > 0
      BY <3>2, HeadTailFacts DEF Flow, FlowTyped, ChannelTyped
    <3>4. 1 \in 1..Len(pending) /\ pending[1] = Commands[1]
      BY <3>3, ConcatProperties, LenProperties DEF Commands, Flow, FlowTyped, ChannelTyped
    <3> QED BY <1>3, <3>1, <3>4 DEF Flow, Barriers
  <2>2. \A i \in 1..Len(pending') : pending'[i].kind # "Intent"
    <3>1. CASE pending = <<>>
      BY <3>1, NoEpochTyped DEF TakeCommand
    <3>2. CASE pending # <<>>
      <4>1. pending' = Tail(pending)
        BY <3>2 DEF TakeCommand
      <4>2. \A i \in 1..Len(pending') : i + 1 \in 1..Len(pending) /\ pending'[i] = pending[i + 1]
        BY <3>2, <4>1, HeadTailFacts DEF Flow, FlowTyped, ChannelTyped
      <4> QED BY <4>2 DEF Flow, Barriers
    <3> QED BY <3>1, <3>2
  <2>3. \A i \in 1..Len(Commands') : Commands'[i].kind = "Barrier" =>
           /\ i = Len(Commands') /\ caller = "waiting" /\ ~barrier'
           /\ Commands'[i].clients = <<>>
    <3> SUFFICES ASSUME NEW i \in 1..Len(Commands'), Commands'[i].kind = "Barrier"
                 PROVE  /\ i = Len(Commands') /\ caller = "waiting" /\ ~barrier'
                        /\ Commands'[i].clients = <<>>
      OBVIOUS
    <3>1. /\ i + 1 = Len(Commands) /\ caller = "waiting" /\ Commands'[i].clients = <<>>
          /\ Commands' # <<>>
      BY <1>3, EmptySeq DEF Flow, Barriers
    <3> QED BY <1>3, <1>5, <1>7, <3>1
  <2>4. (mutex' <=> caller' \in {"sending", "waiting", "answered"}) /\ caller' = caller
    BY <1>10 DEF Flow, Barriers
  <2>5. caller' # "idle" => Alive'
    BY <1>4, <1>6, <1>7, <1>8, <1>9, <1>10 DEF Alive, Flow, Barriers
  <2>6. barrier' => caller' = "waiting" /\ Commands' = <<>>
    BY <1>5, <1>7, <2>4
  <2> QED BY <2>1, <2>2, <2>3, <2>4, <2>5, <2>6 DEF Barriers
<1>17. Located'
  BY <1>10, <1>11 DEF Flow, Located
<1>18. Idle'
  BY <1>1, <1>10 DEF Flow, Idle, Snapshotting
<1>19. Offset'
  BY <1>7, <1>10 DEF Flow, Offset, Alive
<1> QED BY <1>12, <1>13, <1>14, <1>15, <1>16, <1>17, <1>18, <1>19 DEF Flow, FlowTyped

LEMMA ClaimFlow ==
    ASSUME Flow, Claim
    PROVE  Flow'
<1> USE DEF storage, images, ingress, answers, callerVars, workerVars, history
<1>1. worker = "claim" /\ worker' = "claim" /\ pending = <<>> /\ pending' = <<>>
      /\ queue # <<>> /\ queue' = Tail(queue) /\ batch' = batch \o Head(queue).clients
  BY DEF Claim, Flow, Barriers
<1>2. Commands # <<>> /\ Commands' = Tail(Commands) /\ Commands \in Seq(CommandType)
      /\ queue' \in Seq(CommandType)
      /\ Head(queue) = Head(Commands) /\ Head(queue) \in CommandType
      /\ ClientsOf(Commands) = ToSet(Head(queue).clients) \cup ClientsOf(Commands')
  BY <1>1, CommandsClaimed, CommandsTyped DEF Flow, FlowTyped, ChannelTyped
<1>3. Len(Commands) \in Nat /\ Len(Commands) > 0
      /\ Len(Commands') = Len(Commands) - 1
      /\ \A i \in 1..Len(Commands') : i + 1 \in 1..Len(Commands) /\ Commands'[i] = Commands[i + 1]
  BY <1>2, HeadTailFacts
<1>4. Head(queue).clients \in Seq(Clients) /\ batch' \in Seq(Clients)
      /\ ToSet(batch') = ToSet(batch) \cup ToSet(Head(queue).clients)
  <2>1. Head(queue).clients \in Seq(Clients) /\ batch \in Seq(Clients)
    BY <1>2 DEF CommandType, Flow, FlowTyped, WorkerTyped
  <2> QED BY <1>1, <2>1, ConcatProperties, ToSetConcat
<1>5. UNCHANGED <<storage, images, sender, client, answers, callerVars, raced, backlog, held,
                  inflight, kernel, barrier, disconnected, doomed, nextEpoch, fileLen,
                  durableEpochs>>
  BY DEF Claim
<1>6. Staged' = Staged
  BY <1>2, <1>4, <1>5 DEF Staged
<1>7. ~barrier
  BY <1>2 DEF Flow, Barriers
<1>8. ChannelTyped'
  BY <1>1, <1>2, <1>5, NoEpochTyped DEF Flow, FlowTyped, ChannelTyped
<1>9. WorkerTyped'
  BY <1>1, <1>4, <1>5 DEF Flow, FlowTyped, WorkerTyped
<1>10. FileTyped'
  BY <1>5 DEF Flow, FlowTyped, FileTyped
<1>11. Phases'
  BY <1>1, <1>5 DEF Flow, Phases, Receiving, Alive
<1>12. Barriers'
  <2>1. caller' = caller /\ mutex' = mutex /\ barrier' = barrier
    BY <1>5
  <2>2. \A i \in 1..Len(Commands') : Commands'[i].kind = "Barrier" =>
           /\ i = Len(Commands') /\ caller = "waiting" /\ Commands'[i].clients = <<>>
    BY <1>3 DEF Flow, Barriers
  <2>3. \A i \in 1..Len(pending') : pending'[i].kind # "Intent"
    BY <1>1, NoEpochTyped
  <2> QED BY <1>1, <1>7, <2>1, <2>2, <2>3 DEF Flow, Barriers, Alive
<1>13. Located'
  BY <1>5, <1>6 DEF Flow, Located
<1>14. Idle'
  BY <1>2, <1>5 DEF Flow, Idle, Snapshotting
<1>15. Offset'
  BY <1>1, <1>5 DEF Flow, Offset, Alive
<1> QED BY <1>8, <1>9, <1>10, <1>11, <1>12, <1>13, <1>14, <1>15 DEF Flow, FlowTyped

LEMMA ClaimSetsAsideFlow ==
    ASSUME Flow, ClaimSetsAside
    PROVE  Flow'
<1> USE DEF storage, images, ingress, answers, callerVars, workerVars, history
<1>1. worker = "claim" /\ worker' = "submit" /\ pending = <<>> /\ queue # <<>>
      /\ pending' = Append(pending, Head(queue)) /\ queue' = Tail(queue)
      /\ Head(queue).kind # "Intent"
  BY DEF ClaimSetsAside, Flow, Barriers
<1>2. Commands' = Commands /\ pending' = <<Head(queue)>>
      /\ pending' \in Seq(CommandType) /\ queue' \in Seq(CommandType)
  BY <1>1, CommandsSetAside DEF Flow, FlowTyped, ChannelTyped
<1>3. UNCHANGED <<storage, images, sender, client, answers, callerVars, raced, batch, backlog,
                  held, inflight, kernel, barrier, disconnected, doomed, nextEpoch,
                  fileLen, durableEpochs>>
  BY DEF ClaimSetsAside
<1>4. Staged' = Staged
  BY <1>2, <1>3 DEF Staged
<1>5. ChannelTyped'
  BY <1>2, <1>3 DEF Flow, FlowTyped, ChannelTyped
<1>6. WorkerTyped'
  BY <1>1, <1>3 DEF Flow, FlowTyped, WorkerTyped, Phase
<1>7. FileTyped'
  BY <1>3 DEF Flow, FlowTyped, FileTyped
<1>8. Phases'
  BY <1>1, <1>2, <1>3 DEF Flow, Phases, Receiving, Alive
<1>9. Barriers'
  <2>1. \A i \in 1..Len(pending') : pending'[i].kind # "Intent"
    BY <1>1, <1>2
  <2> QED BY <1>1, <1>2, <1>3, <2>1 DEF Flow, Barriers, Alive
<1>10. Located'
  BY <1>3, <1>4 DEF Flow, Located
<1>11. Idle'
  BY <1>1, <1>2, <1>3 DEF Flow, Idle, Snapshotting
<1>12. Offset'
  BY <1>1, <1>3 DEF Flow, Offset, Alive
<1> QED BY <1>5, <1>6, <1>7, <1>8, <1>9, <1>10, <1>11, <1>12 DEF Flow, FlowTyped

LEMMA SubmitAdmissionFlow ==
    ASSUME Flow, SubmitAdmission
    PROVE  Flow'
<1> USE DEF storage, images, ingress, answers, callerVars, workerVars, history
<1>1. inflight' = [id |-> nextEpoch, clients |-> batch] /\ inflight = NoEpoch
      /\ worker = "submit" /\ batch' = <<>> /\ kernel' = "queued"
      /\ worker' = (IF held = NoEpoch THEN "complete" ELSE "materialize")
      /\ nextEpoch' = nextEpoch + 1 /\ nextEpoch \in Nat /\ nextEpoch > 0
  BY DEF SubmitAdmission, Flow, Phases, FlowTyped, FileTyped, Alive
<1>2. inflight' \in EpochBatch /\ inflight' # NoEpoch /\ inflight'.clients = batch
  BY <1>1 DEF Flow, FlowTyped, WorkerTyped, EpochBatch, NoEpoch
<1>3. UNCHANGED <<storage, images, ingress, answers, callerVars, raced, pending, backlog, held,
                  barrier, disconnected, doomed, fileLen, durableEpochs>>
  BY DEF SubmitAdmission
<1>4. Commands' = Commands
  BY <1>3, CommandsSame
<1>5. Staged' = Staged
  BY <1>1, <1>2, <1>3, <1>4, ToSetEmpty DEF Staged, NoEpoch
<1>6. ChannelTyped'
  BY <1>3 DEF Flow, FlowTyped, ChannelTyped
<1>7. WorkerTyped'
  BY <1>1, <1>2, <1>3, NoEpochTyped DEF Flow, FlowTyped, WorkerTyped, Phase
<1>8. FileTyped'
  BY <1>1, <1>3 DEF Flow, FlowTyped, FileTyped
<1>9. Phases'
  BY <1>1, <1>2, <1>3, <1>4 DEF Flow, Phases, Receiving, Alive
<1>10. Barriers'
  BY <1>1, <1>3, <1>4 DEF Flow, Barriers, Alive
<1>11. Located'
  BY <1>3, <1>5 DEF Flow, Located
<1>12. Idle'
  BY <1>1, <1>3 DEF Flow, Idle, Snapshotting
<1>13. Offset'
  BY <1>1, <1>3 DEF Flow, Offset, Alive
<1> QED BY <1>6, <1>7, <1>8, <1>9, <1>10, <1>11, <1>12, <1>13 DEF Flow, FlowTyped

LEMMA RepairTruncateFlow ==
    ASSUME Flow, RepairTruncate
    PROVE  Flow'
<1> USE DEF storage, images, ingress, answers, callerVars, workerVars, history
<1>1. Commands' = Commands /\ Staged' = Staged
  BY StagedSame DEF RepairTruncate
<1>2. file' = SubSeq(file, 1, fileLen) /\ worker = "repair" /\ worker' = "repairsync"
  BY DEF RepairTruncate
<1>3. file' \in Seq(JournalRecord) /\ Len(file') = fileLen
  BY <1>2, PrefixFacts DEF Flow, Offset, FlowTyped, FileTyped, Alive
<1>4. UNCHANGED <<disk, images, ingress, answers, callerVars, raced, workerVars>>
  BY DEF RepairTruncate
<1>5. ChannelTyped'
  BY <1>4 DEF Flow, FlowTyped, ChannelTyped
<1>6. WorkerTyped'
  BY <1>2, <1>4 DEF Flow, FlowTyped, WorkerTyped, Phase
<1>7. FileTyped'
  BY <1>3, <1>4 DEF Flow, FlowTyped, FileTyped
<1>8. Phases'
  BY <1>1, <1>2, <1>4 DEF Flow, Phases, Receiving, Alive
<1>9. Barriers'
  BY <1>1, <1>2, <1>4 DEF Flow, Barriers, Alive
<1>10. Located'
  BY <1>1, <1>4 DEF Flow, Located
<1>11. Idle'
  BY <1>1, <1>2, <1>4 DEF Flow, Idle, Snapshotting
<1>12. Offset'
  BY <1>2, <1>3, <1>4 DEF Flow, Phases, Offset, FlowTyped, FileTyped
<1> QED BY <1>5, <1>6, <1>7, <1>8, <1>9, <1>10, <1>11, <1>12 DEF Flow, FlowTyped

LEMMA CompleteFlow ==
    ASSUME Flow, Complete
    PROVE  Flow'
<1> USE DEF storage, images, ingress, answers, callerVars, workerVars, history
<1>1. inflight # NoEpoch /\ inflight' = NoEpoch /\ kernel = "synced" /\ kernel' = "none"
      /\ worker = "complete" /\ worker' = "fill" /\ backlog' = Append(backlog, inflight)
      /\ fileLen' = fileLen + 1 /\ durableEpochs' = durableEpochs + 1 /\ ~doomed
  BY DEF Complete, Flow, Phases
<1>2. backlog \in Seq(EpochBatch) /\ inflight \in EpochBatch
  BY DEF Flow, FlowTyped, WorkerTyped
<1>3. /\ backlog' \in Seq(EpochBatch) /\ Len(backlog') = Len(backlog) + 1 /\ Len(backlog) \in Nat
      /\ \A i \in 1..Len(backlog) : backlog'[i] = backlog[i]
      /\ backlog'[Len(backlog) + 1] = inflight
      /\ ClientsOf(backlog') = ClientsOf(backlog) \cup ToSet(inflight.clients)
  BY <1>1, <1>2, AppendFacts, ClientsOfAppend
<1>4. UNCHANGED <<storage, images, ingress, outcome, callerVars, raced, pending, batch, held,
                  barrier, disconnected, doomed, nextEpoch>>
  BY DEF Complete
<1>5. Commands' = Commands
  BY <1>4, CommandsSame
<1>6. Staged' = Staged
  BY <1>1, <1>3, <1>4, <1>5, ToSetEmpty DEF Staged, NoEpoch
<1>7. \A i \in 1..Len(backlog') : backlog'[i] # NoEpoch
  BY <1>1, <1>3 DEF Flow, Phases
<1>8. ChannelTyped'
  BY <1>4 DEF Flow, FlowTyped, ChannelTyped
<1>9. WorkerTyped'
  BY <1>1, <1>3, <1>4, NoEpochTyped DEF Flow, FlowTyped, WorkerTyped, Phase
<1>10. FileTyped'
  BY <1>1, <1>4 DEF Flow, FlowTyped, FileTyped
<1>11. Phases'
  BY <1>1, <1>4, <1>5, <1>7 DEF Flow, Phases, Receiving, Alive
<1>12. Barriers'
  BY <1>1, <1>4, <1>5 DEF Flow, Barriers, Alive
<1>13. Located'
  BY <1>4, <1>6 DEF Flow, Located
<1>14. Idle'
  BY <1>1, <1>4 DEF Flow, Idle, Snapshotting
<1>15. Offset'
  BY <1>1, <1>4 DEF Flow, Offset, FlowTyped, FileTyped
<1> QED BY <1>8, <1>9, <1>10, <1>11, <1>12, <1>13, <1>14, <1>15 DEF Flow, FlowTyped

LEMMA PopDurableFlow ==
    ASSUME Flow, PopDurable
    PROVE  Flow'
<1> USE DEF storage, images, ingress, answers, callerVars, workerVars, history
<1>1. worker = "apply" /\ worker' = "overlap" /\ backlog # <<>> /\ held = NoEpoch
      /\ held' = Head(backlog) /\ backlog' = Tail(backlog)
  BY DEF PopDurable, Flow, Phases
<1>2. backlog \in Seq(EpochBatch)
  BY DEF Flow, FlowTyped, WorkerTyped
<1>3. /\ held' = backlog[1] /\ 1 \in 1..Len(backlog) /\ held' \in EpochBatch
      /\ backlog' \in Seq(EpochBatch)
      /\ \A i \in 1..Len(backlog') : i + 1 \in 1..Len(backlog) /\ backlog'[i] = backlog[i + 1]
      /\ ClientsOf(backlog) = ToSet(held'.clients) \cup ClientsOf(backlog')
  BY <1>1, <1>2, HeadTailFacts, ClientsOfHeadTail
<1>4. UNCHANGED <<storage, images, ingress, answers, callerVars, raced, pending, batch, inflight,
                  kernel, barrier, disconnected, doomed, nextEpoch, fileLen, durableEpochs>>
  BY DEF PopDurable
<1>5. Commands' = Commands
  BY <1>4, CommandsSame
<1>6. Staged' = Staged
  BY <1>1, <1>3, <1>4, <1>5, ToSetEmpty DEF Staged, NoEpoch
<1>7. held' # NoEpoch /\ \A i \in 1..Len(backlog') : backlog'[i] # NoEpoch
  BY <1>3 DEF Flow, Phases
<1>8. ChannelTyped'
  BY <1>4 DEF Flow, FlowTyped, ChannelTyped
<1>9. WorkerTyped'
  BY <1>1, <1>3, <1>4 DEF Flow, FlowTyped, WorkerTyped, Phase
<1>10. FileTyped'
  BY <1>4 DEF Flow, FlowTyped, FileTyped
<1>11. Phases'
  BY <1>1, <1>4, <1>5, <1>7 DEF Flow, Phases, Receiving, Alive
<1>12. Barriers'
  BY <1>1, <1>4, <1>5 DEF Flow, Barriers, Alive
<1>13. Located'
  BY <1>4, <1>6 DEF Flow, Located
<1>14. Idle'
  BY <1>1, <1>4 DEF Flow, Idle, Snapshotting
<1>15. Offset'
  BY <1>1, <1>4 DEF Flow, Offset, Alive
<1> QED BY <1>8, <1>9, <1>10, <1>11, <1>12, <1>13, <1>14, <1>15 DEF Flow, FlowTyped

LEMMA MaterializeFlow ==
    ASSUME Flow, Materialize \/ MaterializePanicsFirst
    PROVE  Flow'
<1> USE DEF storage, images, ingress, answers, callerVars, workerVars, history
<1>1. worker = "materialize" /\ held # NoEpoch /\ held' = NoEpoch
      /\ worker' = (IF inflight = NoEpoch THEN "fill" ELSE "complete")
      /\ (doomed' => doomed \/ inflight # NoEpoch) /\ doomed' \in BOOLEAN
  <2>1. worker = "materialize" /\ held # NoEpoch /\ held' = NoEpoch
    BY DEF Materialize, MaterializePanicsFirst, Panics, Flow, Phases
  <2>2. CASE Materialize
    BY <2>1, <2>2 DEF Materialize, Flow, FlowTyped, WorkerTyped
  <2>3. CASE MaterializePanicsFirst
    BY <2>1, <2>3 DEF MaterializePanicsFirst
  <2> QED BY <2>2, <2>3
<1>2. outcome' \in [Clients -> {"None", "Accepted", "Rejected", "Failed", "Stopped", "Lost"}]
      /\ \A c \in Clients : /\ c \in ToSet(held.clients) => outcome'[c] # "None"
                            /\ outcome[c] # "None" => outcome'[c] # "None"
  BY DEF Materialize, MaterializePanicsFirst, Flow, FlowTyped, ChannelTyped
<1>3. UNCHANGED <<storage, images, ingress, receipt, callerVars, raced, pending, batch, backlog,
                  inflight, kernel, barrier, disconnected, nextEpoch, fileLen,
                  durableEpochs>>
  BY DEF Materialize, MaterializePanicsFirst
<1>4. Commands' = Commands
  BY <1>3, CommandsSame
<1>5. Staged \subseteq Staged' \cup ToSet(held.clients)
  BY <1>3, <1>4 DEF Staged
<1>6. ChannelTyped'
  BY <1>2, <1>3 DEF Flow, FlowTyped, ChannelTyped
<1>7. WorkerTyped'
  BY <1>1, <1>3, NoEpochTyped DEF Flow, FlowTyped, WorkerTyped, Phase
<1>8. FileTyped'
  BY <1>3 DEF Flow, FlowTyped, FileTyped
<1>9. Phases'
  BY <1>1, <1>3, <1>4 DEF Flow, Phases, Receiving, Alive
<1>10. Barriers'
  BY <1>1, <1>3, <1>4 DEF Flow, Barriers, Alive
<1>11. Located'
  BY <1>2, <1>3, <1>5 DEF Flow, Located, FlowTyped, ChannelTyped
<1>12. Idle'
  BY <1>1, <1>3 DEF Flow, Idle, Snapshotting
<1>13. Offset'
  BY <1>1, <1>3 DEF Flow, Offset, Alive
<1> QED BY <1>6, <1>7, <1>8, <1>9, <1>10, <1>11, <1>12, <1>13 DEF Flow, FlowTyped

\* Every way run_worker returns answers what it had claimed.
LEMMA ReturnsFlow ==
    ASSUME Flow, NEW receipts, NEW failed, Returns(receipts, failed), Alive,
           Staged \subseteq failed \cup ClientsOf(Commands),
           file' = file, disk' \in {disk, file},
           durableEpochs' \in Nat, fileLen' \in Nat, fileLen' <= Len(file)
    PROVE  Flow'
<1> USE DEF storage, images, ingress, answers, callerVars, workerVars, history
<1>1. Commands' = <<>> /\ pending' = <<>>
  BY CommandsGone DEF Returns
<1>2. Staged' = {}
  BY <1>1, ToSetEmpty, ClientsOfEmpty DEF Returns, Staged, NoEpoch
<1>3. outcome' \in [Clients -> {"None", "Accepted", "Rejected", "Failed", "Stopped", "Lost"}]
      /\ \A c \in Clients : /\ c \in failed \cup ClientsOf(Commands) => outcome'[c] # "None"
                            /\ outcome[c] # "None" => outcome'[c] # "None"
  BY DEF Returns, Commands, Flow, FlowTyped, ChannelTyped
<1>4. UNCHANGED <<images, sender, client, callerVars, disconnected, doomed, nextEpoch>>
      /\ worker' = "stopped" /\ queue' = <<>> /\ backlog' = <<>> /\ batch' = <<>>
      /\ held' = NoEpoch /\ inflight' = NoEpoch /\ kernel' = "none" /\ barrier' = FALSE
  BY DEF Returns
<1>5. ChannelTyped'
  BY <1>1, <1>3, <1>4, NoEpochTyped DEF Flow, FlowTyped, ChannelTyped
<1>6. WorkerTyped'
  BY <1>4, NoEpochTyped DEF Flow, FlowTyped, WorkerTyped, Phase
<1>7. FileTyped'
  BY <1>4 DEF Flow, FlowTyped, FileTyped
<1>8. Phases'
  BY <1>1, <1>4, NoEpochTyped DEF Flow, Phases, Receiving, Alive
<1>9. Barriers'
  BY <1>1, <1>4, NoEpochTyped DEF Flow, Barriers, Alive
<1>10. Located'
  BY <1>2, <1>3, <1>4 DEF Flow, Located, FlowTyped, ChannelTyped
<1>11. Idle'
  BY <1>1, <1>4 DEF Flow, Idle, Snapshotting
<1>12. Offset'
  BY <1>4 DEF Offset
<1> QED BY <1>5, <1>6, <1>7, <1>8, <1>9, <1>10, <1>11, <1>12 DEF Flow, FlowTyped

LEMMA StoppingFlow ==
    ASSUME Flow,
           \/ SubmissionFails \/ CompleteDoomed \/ RepairSync \/ RepairFails
           \/ MaterializePanics \/ WorkerEnds
    PROVE  Flow'
<1> USE DEF storage, history
<1>1. /\ backlog \in Seq(EpochBatch) /\ held \in EpochBatch /\ inflight \in EpochBatch
      /\ fileLen \in Nat /\ durableEpochs \in Nat
  BY DEF Flow, FlowTyped, WorkerTyped, FileTyped
<1>2. /\ ClientsOf(Append(backlog, held)) = ClientsOf(backlog) \cup ToSet(held.clients)
      /\ ClientsOf(Append(backlog, inflight)) = ClientsOf(backlog) \cup ToSet(inflight.clients)
      /\ ToSet(<<>>) = {} /\ ToSet(NoEpoch.clients) = {} /\ ClientsOf(<<>>) = {}
  BY <1>1, ClientsOfAppend, ToSetEmpty, ClientsOfEmpty DEF NoEpoch
<1>3. CASE SubmissionFails
  <2>1. inflight = NoEpoch /\ Alive /\ fileLen <= Len(file)
    BY <1>3 DEF SubmissionFails, Flow, Phases, Offset, Alive
  <2>2. Staged \subseteq (ToSet(batch) \cup ClientsOf(Append(backlog, held)))
                            \cup ClientsOf(Commands)
    BY <1>2, <2>1 DEF Staged
  <2> QED BY <1>1, <1>3, <2>1, <2>2, ReturnsFlow DEF SubmissionFails
<1>4. CASE CompleteDoomed
  <2>1. batch = <<>> /\ held = NoEpoch /\ Alive /\ fileLen + 1 <= Len(file)
    BY <1>1, <1>4 DEF CompleteDoomed, Flow, Phases, Offset, Alive
  <2>2. Staged \subseteq ClientsOf(Append(backlog, inflight)) \cup ClientsOf(Commands)
    BY <1>2, <2>1 DEF Staged
  <2> QED BY <1>1, <1>4, <2>1, <2>2, ReturnsFlow DEF CompleteDoomed
<1>5. CASE RepairSync \/ RepairFails
  <2>1. batch = <<>> /\ held = NoEpoch /\ Alive /\ fileLen <= Len(file)
    BY <1>5 DEF RepairSync, RepairFails, Flow, Phases, Offset, Alive
  <2>2. Staged \subseteq ClientsOf(Append(backlog, inflight)) \cup ClientsOf(Commands)
    BY <1>2, <2>1 DEF Staged
  <2> QED BY <1>1, <1>5, <2>1, <2>2, ReturnsFlow DEF RepairSync, RepairFails
<1>6. CASE MaterializePanics
  <2>1. batch = <<>> /\ inflight = NoEpoch /\ Alive /\ fileLen <= Len(file)
    BY <1>6 DEF MaterializePanics, Panics, Flow, Phases, Offset, Alive
  <2>2. Staged \subseteq ClientsOf(Append(backlog, held)) \cup ClientsOf(Commands)
    BY <1>2, <2>1 DEF Staged
  <2> QED BY <1>1, <1>6, <2>1, <2>2, ReturnsFlow DEF MaterializePanics
<1>7. CASE WorkerEnds
  <2>1. /\ batch = <<>> /\ inflight = NoEpoch /\ held = NoEpoch /\ backlog = <<>>
        /\ Alive /\ fileLen <= Len(file)
    BY <1>7 DEF WorkerEnds, Flow, Phases, Offset, Alive
  <2>2. Staged \subseteq {} \cup ClientsOf(Commands)
    BY <1>2, <2>1 DEF Staged
  <2> QED BY <1>1, <1>7, <2>1, <2>2, ReturnsFlow DEF WorkerEnds
<1> QED BY <1>3, <1>4, <1>5, <1>6, <1>7

LEMMA BulkTyped == Bulk \in Seq(Clients)
BY AdmissionAssumption

LEMMA NextFlow == Flow /\ [Next]_vars => Flow'
<1> SUFFICES ASSUME Flow, [Next]_vars  PROVE Flow'
  OBVIOUS
<1>1. CASE UNCHANGED vars
  <2> USE <1>1 DEF vars, storage, images, ingress, answers, callerVars, workerVars, history
  <2>1. Commands' = Commands /\ Staged' = Staged
    BY StagedSame
  <2>2. ChannelTyped' /\ WorkerTyped' /\ FileTyped'
    BY DEF Flow, FlowTyped, ChannelTyped, WorkerTyped, FileTyped
  <2>3. Phases' /\ Barriers' /\ Located' /\ Idle' /\ Offset'
    BY <2>1 DEF Flow, Phases, Barriers, Located, Idle, Offset, Snapshotting, Receiving, Alive
  <2> QED BY <2>2, <2>3 DEF Flow, FlowTyped
<1>2. CASE Open
  BY <1>2, OpenFlow
<1>3. CASE Users
  <2>1. ASSUME NEW c \in Clients, Submit(c)  PROVE Flow'
    <3>1. <<c>> \in Seq(Clients) /\ Send("Intent", <<c>>)
      BY <2>1 DEF Submit
    <3> QED BY <3>1, SendFlow
  <2>2. CASE SubmitEpoch
    BY <2>2, BulkTyped, SendFlow DEF SubmitEpoch
  <2>3. CASE Shutdown
    BY <2>3, CallerFlow
  <2> QED BY <1>3, <2>1, <2>2, <2>3 DEF Users
<1>4. CASE Caller
  BY <1>4, CallerFlow, FlushSendFlow DEF Caller
<1>5. CASE Snapshot
  BY <1>5, SnapshotFlow DEF Snapshot
<1>6. CASE Worker \/ Failure
  BY <1>6, TakeCommandFlow, WorkerTurnsFlow, ClaimFlow, ClaimSetsAsideFlow,
     SubmitAdmissionFlow, CompleteFlow, StoppingFlow, RepairTruncateFlow, PopDurableFlow,
     MaterializeFlow DEF Worker, Failure
<1>7. CASE Kernel
  BY <1>7, KernelFlow DEF Kernel
<1>8. CASE Writeback
  BY <1>8, WritebackFlow
<1>9. CASE ProcessExit \/ PowerLoss
  BY <1>9, CrashFlow DEF ProcessExit, PowerLoss, storage, images
<1> QED BY <1>1, <1>2, <1>3, <1>4, <1>5, <1>6, <1>7, <1>8, <1>9 DEF Next

\* Whatever is submitted, fails or crashes: a flush that returns Ok has waited for
\* every command that was in the channel before its barrier, because the barrier
\* is the last command the worker can reach, is answered with empty hands only,
\* and a ticket without an answer is always in the worker's hands.
THEOREM FlushesWait == Spec => []FlushWaits
<1>1. Flow => FlushWaits
  BY DEF Flow, Located, FlushWaits
<1> QED BY InitFlow, NextFlow, <1>1, PTL DEF Spec

-----------------------------------------------------------------------------
(* Recursion over positions.  Induction is by a least counterexample, so that *)
(* no prover has to instantiate an operator.                                  *)

LEMMA LeastNat ==
    ASSUME NEW T, T \subseteq Nat, T # {}
    PROVE  \E n \in T : \A m \in T : n <= m
<1> DEFINE R == OpToRel(<, Nat)
<1>1. IsWellFoundedOn(R, Nat)
  BY NatLessThanWellFounded
<1>2. PICK n \in T : \A m \in T : ~(<<m, n>> \in R)
  BY <1>1, WFMin, Zenon
<1>3. \A m \in T : ~(m < n)
  BY <1>2 DEF OpToRel
<1> QED BY <1>3

LEMMA Induction ==
    ASSUME NEW n \in Nat, NEW T, 0 \in T, \A i \in 1..n : i - 1 \in T => i \in T
    PROVE  \A i \in 0..n : i \in T
<1> DEFINE C == {i \in 0..n : i \notin T}
<1> SUFFICES ASSUME C # {}  PROVE FALSE
  OBVIOUS
<1>1. PICK m \in C : \A k \in C : m <= k
  <2>1. C \subseteq Nat
    OBVIOUS
  <2> HIDE DEF C
  <2> QED BY <2>1, LeastNat
<1>2. m \in 1..n /\ m - 1 \in 0..n
  BY <1>1
<1>3. m - 1 \notin C
  BY <1>1, <1>2
<1> QED BY <1>1, <1>2, <1>3

\* A function on 0..n can be defined by recursion with these steps.
HasRecursion(n, S, b, G) ==
    \E g \in [0..n -> S] : g[0] = b /\ \A i \in 1..n : g[i] = G[i][g[i - 1]]

LEMMA Recursion ==
    ASSUME NEW n \in Nat, NEW S, NEW b \in S, NEW G \in [1..n -> [S -> S]]
    PROVE  HasRecursion(n, S, b, G)
<1> DEFINE T == {k \in 0..n : \E g \in [0..k -> S] :
                                g[0] = b /\ \A i \in 1..k : g[i] = G[i][g[i - 1]]}
<1>1. 0 \in T
  <2> DEFINE g == [i \in 0..0 |-> b]
  <2>1. g \in [0..0 -> S] /\ g[0] = b /\ \A i \in 1..0 : g[i] = G[i][g[i - 1]]
    OBVIOUS
  <2> HIDE DEF g
  <2> QED BY <2>1
<1>2. ASSUME NEW k \in 1..n, k - 1 \in T  PROVE k \in T
  <2>1. PICK g \in [0..(k - 1) -> S] :
               g[0] = b /\ \A i \in 1..(k - 1) : g[i] = G[i][g[i - 1]]
    BY <1>2
  <2> DEFINE h == [i \in 0..k |-> IF i = k THEN G[k][g[k - 1]] ELSE g[i]]
  <2>2. G[k][g[k - 1]] \in S
    <3>1. g[k - 1] \in S
      BY <2>1
    <3>2. G[k] \in [S -> S]
      OBVIOUS
    <3> QED BY <3>1, <3>2
  <2>3. \A i \in 0..k : i # k => i \in 0..(k - 1)
    OBVIOUS
  <2>4. h \in [0..k -> S]
    BY <2>1, <2>2, <2>3
  <2>5. h[0] = b
    BY <2>1
  <2>6. \A i \in 0..(k - 1) : h[i] = g[i]
    OBVIOUS
  <2>7. h[k] = G[k][g[k - 1]]
    OBVIOUS
  <2> HIDE DEF h
  <2>8. ASSUME NEW i \in 1..k  PROVE h[i] = G[i][h[i - 1]]
    <3>1. i - 1 \in 0..(k - 1) /\ h[i - 1] = g[i - 1]
      BY <2>6
    <3>2. CASE i = k
      BY <2>7, <3>1, <3>2
    <3>3. CASE i # k
      <4>1. i \in 0..(k - 1) /\ i \in 1..(k - 1)
        BY <3>3
      <4>2. h[i] = g[i] /\ g[i] = G[i][g[i - 1]]
        BY <2>1, <2>6, <4>1
      <4> QED BY <3>1, <4>2
    <3> QED BY <3>2, <3>3
  <2>9. k \in 0..n
    OBVIOUS
  <2> QED BY <2>4, <2>5, <2>8, <2>9
<1> HIDE DEF T
<1>3. n \in T
  <2>1. \A i \in 0..n : i \in T
    BY <1>1, <1>2, Induction
  <2> QED BY <2>1
<1> QED BY <1>3 DEF T, HasRecursion

-----------------------------------------------------------------------------
(* The semantic projection.                                                  *)

\* Plan is defined by its recursion.
LEMMA PlanRecursion ==
    ASSUME NEW world, NEW clients \in Seq(Clients)
    PROVE  \E acc :
             /\ Plan(world, clients) = acc[Len(clients)]
             /\ acc[0] = <<>>
             /\ \A i \in 1..Len(clients) :
                  acc[i] = IF Accepts(clients[i], Facts(world) \cup ToSet(acc[i - 1]))
                           THEN Append(acc[i - 1], clients[i]) ELSE acc[i - 1]
<1> DEFINE n == Len(clients)
           S == Seq(Clients)
           Step(i, a) == IF Accepts(clients[i], Facts(world) \cup ToSet(a))
                         THEN Append(a, clients[i]) ELSE a
           G == [i \in 1..n |-> [a \in S |-> Step(i, a)]]
           acc == CHOOSE a : a = [i \in 0..n |-> IF i = 0 THEN <<>> ELSE Step(i, a[i - 1])]
<1>1. n \in Nat /\ <<>> \in S /\ \A i \in 1..n : clients[i] \in Clients
  BY LenProperties, EmptySeq, ElementOfSeq
<1>2. \A i \in 1..n, a \in S : Step(i, a) \in S
  BY <1>1, AppendFacts
<1>3. Plan(world, clients) = acc[n]
  BY DEF Plan
<1> HIDE DEF n, S, Step
<1>4. G \in [1..n -> [S -> S]]
  BY <1>2
<1>5. \A i \in 1..n, a \in S : G[i][a] = Step(i, a)
  OBVIOUS
<1> HIDE DEF G
<1>6. PICK g \in [0..n -> S] : g[0] = <<>> /\ \A i \in 1..n : g[i] = G[i][g[i - 1]]
  <2>1. HasRecursion(n, S, <<>>, G)
    BY <1>1, <1>4, Recursion
  <2> QED BY <2>1 DEF HasRecursion
<1>7. \A i \in 1..n : g[i] = Step(i, g[i - 1])
  <2> TAKE i \in 1..n
  <2>1. g[i - 1] \in S
    BY <1>1, <1>6
  <2> QED BY <1>5, <1>6, <2>1
<1>8. g = [i \in 0..n |-> IF i = 0 THEN <<>> ELSE Step(i, g[i - 1])]
  <2>1. \A i \in 0..n : i # 0 => i \in 1..n
    BY <1>1
  <2> QED BY <1>6, <1>7, <2>1
<1>9. acc = [i \in 0..n |-> IF i = 0 THEN <<>> ELSE Step(i, acc[i - 1])]
  BY <1>8
<1> HIDE DEF acc
<1>10. acc[0] = <<>>
  BY <1>1, <1>9
<1>11. \A i \in 1..n : acc[i] = Step(i, acc[i - 1])
  BY <1>1, <1>9
<1> QED BY <1>3, <1>10, <1>11 DEF n, Step

\* Only clients of the epoch are accepted.
LEMMA PlanFacts ==
    ASSUME NEW world, NEW clients \in Seq(Clients)
    PROVE  Plan(world, clients) \in Seq(Clients) /\ ToSet(Plan(world, clients)) \subseteq ToSet(clients)
<1> DEFINE n == Len(clients)
           S == {s \in Seq(Clients) : ToSet(s) \subseteq ToSet(clients)}
<1>1. PICK acc :
        /\ Plan(world, clients) = acc[n]
        /\ acc[0] = <<>>
        /\ \A i \in 1..n :
             acc[i] = IF Accepts(clients[i], Facts(world) \cup ToSet(acc[i - 1]))
                      THEN Append(acc[i - 1], clients[i]) ELSE acc[i - 1]
  BY PlanRecursion
<1>2. n \in Nat /\ \A i \in 1..n : clients[i] \in Clients /\ clients[i] \in ToSet(clients)
  BY LenProperties, ElementOfSeq, ToSetFacts
<1> HIDE DEF n
<1>3. <<>> \in S
  BY EmptySeq, ToSetEmpty
<1>4. ASSUME NEW a \in S, NEW c \in Clients, c \in ToSet(clients)  PROVE Append(a, c) \in S
  <2>1. a \in Seq(Clients) /\ <<c>> \in Seq(Clients) /\ Append(a, c) = a \o <<c>>
    BY AppendIsConcat
  <2>2. ToSet(a \o <<c>>) = ToSet(a) \cup ToSet(<<c>>)
    BY <2>1, ToSetConcat
  <2>3. ToSet(<<c>>) = {c} /\ Append(a, c) \in Seq(Clients)
    BY ToSetOne, AppendFacts
  <2> QED BY <1>4, <2>1, <2>2, <2>3
<1> DEFINE T == {i \in 0..n : acc[i] \in S}
<1> HIDE DEF S
<1>5. 0 \in T
  BY <1>1, <1>2, <1>3
<1>6. ASSUME NEW i \in 1..n, i - 1 \in T  PROVE i \in T
  <2>1. acc[i - 1] \in S /\ i \in 0..n
    BY <1>6
  <2>2. acc[i] = Append(acc[i - 1], clients[i]) \/ acc[i] = acc[i - 1]
    BY <1>1
  <2>3. Append(acc[i - 1], clients[i]) \in S
    BY <1>2, <1>4, <2>1
  <2> QED BY <2>1, <2>2, <2>3
<1> HIDE DEF T
<1>7. \A i \in 0..n : i \in T
  BY <1>2, <1>5, <1>6, Induction
<1>8. acc[n] \in S
  BY <1>2, <1>7 DEF T
<1> QED BY <1>1, <1>8 DEF S

LEMMA FactsMember ==
    ASSUME NEW world \in Seq(Seq(Clients))
    PROVE  \A c : c \in Facts(world) <=> \E i \in 1..Len(world) : c \in ToSet(world[i])
<1>1. DOMAIN world = 1..Len(world)
  BY LenProperties
<1> QED BY <1>1 DEF Facts

\* An epoch adds what it accepts to the facts.
LEMMA WorldAfterFacts ==
    ASSUME NEW world \in Seq(Seq(Clients)), NEW clients \in Seq(Clients)
    PROVE  /\ WorldAfter(world, clients) \in Seq(Seq(Clients))
           /\ Facts(WorldAfter(world, clients)) = Facts(world) \cup ToSet(Plan(world, clients))
<1> DEFINE p == Plan(world, clients)
<1>1. p \in Seq(Clients)
  BY PlanFacts
<1>2. WorldAfter(world, clients) = IF p = <<>> THEN world ELSE Append(world, p)
  BY DEF WorldAfter
<1> HIDE DEF p
<1>3. CASE p = <<>>
  BY <1>2, <1>3, ToSetEmpty DEF p
<1>4. CASE p # <<>>
  <2> DEFINE w == Append(world, p)
  <2>1. /\ w \in Seq(Seq(Clients)) /\ Len(w) = Len(world) + 1 /\ Len(world) \in Nat
        /\ \A i \in 1..Len(world) : w[i] = world[i]
        /\ w[Len(world) + 1] = p
    BY <1>1, AppendFacts
  <2>2. WorldAfter(world, clients) = w
    BY <1>2, <1>4
  <2> HIDE DEF w
  <2>3. 1..Len(w) = (1..Len(world)) \cup {Len(world) + 1}
    BY <2>1
  <2>4. Facts(w) = Facts(world) \cup ToSet(p)
    <3>1. \A c : c \in Facts(w) <=> \E i \in 1..Len(w) : c \in ToSet(w[i])
      BY <2>1, FactsMember
    <3>2. \A c : c \in Facts(world) <=> \E i \in 1..Len(world) : c \in ToSet(world[i])
      BY FactsMember
    <3> QED BY <2>1, <2>3, <3>1, <3>2
  <2> QED BY <2>1, <2>2, <2>4 DEF p
<1> QED BY <1>3, <1>4

\* Projection is defined by its recursion.
LEMMA ProjectionRecursion ==
    ASSUME NEW f \in Seq(JournalRecord)
    PROVE  \E after \in [0..Len(f) -> Seq(Seq(Clients))] :
             /\ Projection(f) = after[Len(f)]
             /\ after[0] = <<>>
             /\ \A i \in 1..Len(f) : after[i] = WorldAfter(after[i - 1], f[i].clients)
<1> DEFINE n == Len(f)
           S == Seq(Seq(Clients))
           G == [i \in 1..n |-> [a \in S |-> WorldAfter(a, f[i].clients)]]
           after == CHOOSE a : a = [i \in 0..n |-> IF i = 0 THEN <<>>
                                                   ELSE WorldAfter(a[i - 1], f[i].clients)]
<1>1. n \in Nat /\ <<>> \in S /\ \A i \in 1..n : f[i].clients \in Seq(Clients)
  <2>1. \A i \in 1..n : f[i] \in JournalRecord
    BY ElementOfSeq
  <2> QED BY <2>1, LenProperties, EmptySeq DEF JournalRecord
<1>2. \A i \in 1..n, a \in S : WorldAfter(a, f[i].clients) \in S
  BY <1>1, WorldAfterFacts
<1>3. Projection(f) = after[n]
  BY DEF Projection
<1> HIDE DEF n, S
<1>4. G \in [1..n -> [S -> S]]
  BY <1>2
<1>5. \A i \in 1..n, a \in S : G[i][a] = WorldAfter(a, f[i].clients)
  OBVIOUS
<1> HIDE DEF G
<1>6. PICK g \in [0..n -> S] : g[0] = <<>> /\ \A i \in 1..n : g[i] = G[i][g[i - 1]]
  <2>1. HasRecursion(n, S, <<>>, G)
    BY <1>1, <1>4, Recursion
  <2> QED BY <2>1 DEF HasRecursion
<1>7. \A i \in 1..n : g[i] = WorldAfter(g[i - 1], f[i].clients)
  <2> TAKE i \in 1..n
  <2>1. g[i - 1] \in S
    BY <1>1, <1>6
  <2> QED BY <1>5, <1>6, <2>1
<1>8. g = [i \in 0..n |-> IF i = 0 THEN <<>> ELSE WorldAfter(g[i - 1], f[i].clients)]
  <2>1. \A i \in 0..n : i # 0 => i \in 1..n
    BY <1>1
  <2> QED BY <1>6, <1>7, <2>1
<1>9. after = [i \in 0..n |-> IF i = 0 THEN <<>> ELSE WorldAfter(after[i - 1], f[i].clients)]
  BY <1>8
<1> HIDE DEF after
<1>10. after[0] = <<>> /\ DOMAIN after = 0..n
  BY <1>1, <1>9
<1>11. \A i \in 1..n : after[i] = WorldAfter(after[i - 1], f[i].clients)
  BY <1>1, <1>9
<1> DEFINE T == {i \in 0..n : after[i] \in S}
<1>12. 0 \in T
  BY <1>1, <1>10
<1>13. ASSUME NEW i \in 1..n, i - 1 \in T  PROVE i \in T
  <2>1. after[i - 1] \in S /\ i \in 0..n
    BY <1>13
  <2>2. WorldAfter(after[i - 1], f[i].clients) \in S
    BY <1>2, <2>1
  <2> QED BY <1>11, <2>1, <2>2
<1> HIDE DEF T
<1>14. \A i \in 0..n : after[i] \in S
  <2>1. \A i \in 0..n : i \in T
    BY <1>1, <1>12, <1>13, Induction
  <2> QED BY <2>1 DEF T
<1>15. after \in [0..n -> S]
  <2>1. after = [i \in 0..n |-> after[i]]
    BY <1>9
  <2> QED BY <1>14, <2>1
<1> QED BY <1>3, <1>10, <1>11, <1>15 DEF n, S

\* The projections of all prefixes of a journal, each from the one before.
LEMMA ProjectionPrefixes ==
    ASSUME NEW f \in Seq(JournalRecord)
    PROVE  \E after \in [0..Len(f) -> Seq(Seq(Clients))] :
             /\ \A k \in 0..Len(f) : Projection(SubSeq(f, 1, k)) = after[k]
             /\ after[0] = <<>>
             /\ \A i \in 1..Len(f) : after[i] = WorldAfter(after[i - 1], f[i].clients)
<1>1. PICK after \in [0..Len(f) -> Seq(Seq(Clients))] :
        /\ Projection(f) = after[Len(f)]
        /\ after[0] = <<>>
        /\ \A i \in 1..Len(f) : after[i] = WorldAfter(after[i - 1], f[i].clients)
  BY ProjectionRecursion
<1>2. ASSUME NEW k \in 0..Len(f)  PROVE Projection(SubSeq(f, 1, k)) = after[k]
  <2> DEFINE p == SubSeq(f, 1, k)
  <2>1. k \in Nat /\ k <= Len(f) /\ Len(f) \in Nat
    BY LenProperties
  <2>2. p \in Seq(JournalRecord) /\ Len(p) = k /\ \A i \in 1..k : p[i] = f[i]
    BY <2>1, PrefixFacts
  <2> HIDE DEF p
  <2>3. PICK g :
          /\ Projection(p) = g[k]
          /\ g[0] = <<>>
          /\ \A i \in 1..k : g[i] = WorldAfter(g[i - 1], p[i].clients)
    BY <2>2, ProjectionRecursion
  <2> DEFINE T == {i \in 0..k : g[i] = after[i]}
  <2>4. 0 \in T
    BY <1>1, <2>1, <2>3
  <2>5. ASSUME NEW i \in 1..k, i - 1 \in T  PROVE i \in T
    <3>1. i \in 1..Len(f) /\ i \in 0..k /\ g[i - 1] = after[i - 1] /\ p[i] = f[i]
      BY <2>1, <2>2, <2>5
    <3>2. g[i] = after[i]
      BY <1>1, <2>3, <3>1
    <3> QED BY <3>1, <3>2
  <2> HIDE DEF T
  <2>6. k \in T
    <3>1. \A i \in 0..k : i \in T
      BY <2>1, <2>4, <2>5, Induction
    <3> QED BY <2>1, <3>1
  <2> QED BY <2>3, <2>6 DEF p, T
<1> QED BY <1>1, <1>2

LEMMA ProjectionStep ==
    ASSUME NEW f \in Seq(JournalRecord), NEW n \in Nat, n < Len(f)
    PROVE  /\ Projection(SubSeq(f, 1, n)) \in Seq(Seq(Clients))
           /\ Projection(SubSeq(f, 1, n + 1))
                = WorldAfter(Projection(SubSeq(f, 1, n)), f[n + 1].clients)
<1>1. Len(f) \in Nat /\ n \in 0..Len(f) /\ n + 1 \in 0..Len(f) /\ n + 1 \in 1..Len(f)
      /\ (n + 1) - 1 = n
  BY LenProperties
<1>2. PICK after \in [0..Len(f) -> Seq(Seq(Clients))] :
        /\ \A k \in 0..Len(f) : Projection(SubSeq(f, 1, k)) = after[k]
        /\ \A i \in 1..Len(f) : after[i] = WorldAfter(after[i - 1], f[i].clients)
  BY ProjectionPrefixes
<1>3. after[n + 1] = WorldAfter(after[n], f[n + 1].clients)
  BY <1>1, <1>2
<1> QED BY <1>1, <1>2, <1>3

LEMMA ProjectionTyped ==
    ASSUME NEW f \in Seq(JournalRecord)
    PROVE  Projection(f) \in Seq(Seq(Clients)) /\ Projection(<<>>) = <<>>
<1>1. Len(f) \in 0..Len(f)
  BY LenProperties
<1>2. Projection(f) \in Seq(Seq(Clients))
  BY <1>1, ProjectionRecursion
<1>3. <<>> \in Seq(JournalRecord) /\ Len(<<>>) = 0
  BY EmptySeq
<1>4. \E after : Projection(<<>>) = after[Len(<<>>)] /\ after[0] = <<>>
  BY <1>3, ProjectionRecursion
<1> QED BY <1>2, <1>3, <1>4

\* Facts are only added, and only from the records in between.
LEMMA ProjectionGrows ==
    ASSUME NEW f \in Seq(JournalRecord), NEW m \in Nat, NEW n \in Nat, m <= n, n <= Len(f)
    PROVE  /\ Facts(Projection(SubSeq(f, 1, m))) \subseteq Facts(Projection(SubSeq(f, 1, n)))
           /\ \A c \in Facts(Projection(SubSeq(f, 1, n))) :
                \/ c \in Facts(Projection(SubSeq(f, 1, m)))
                \/ \E i \in (m + 1)..n : c \in ToSet(f[i].clients)
<1> DEFINE F(k) == Facts(Projection(SubSeq(f, 1, k)))
           T == {k \in 0..n : m <= k => /\ F(m) \subseteq F(k)
                                        /\ \A c \in F(k) : \/ c \in F(m)
                                                           \/ \E i \in (m + 1)..k :
                                                                c \in ToSet(f[i].clients)}
<1>1. Len(f) \in Nat /\ \A i \in 1..Len(f) : f[i].clients \in Seq(Clients)
  <2>1. \A i \in 1..Len(f) : f[i] \in JournalRecord
    BY ElementOfSeq
  <2> QED BY <2>1, LenProperties DEF JournalRecord
<1>2. ASSUME NEW k \in Nat, k < Len(f)
      PROVE  F(k) \subseteq F(k + 1) /\ F(k + 1) \subseteq F(k) \cup ToSet(f[k + 1].clients)
  <2> DEFINE w == Projection(SubSeq(f, 1, k))
  <2>1. w \in Seq(Seq(Clients)) /\ Projection(SubSeq(f, 1, k + 1)) = WorldAfter(w, f[k + 1].clients)
    BY <1>2, ProjectionStep
  <2>2. k + 1 \in 1..Len(f) /\ f[k + 1].clients \in Seq(Clients)
    BY <1>1, <1>2
  <2> HIDE DEF w
  <2>3. /\ Facts(WorldAfter(w, f[k + 1].clients)) = Facts(w) \cup ToSet(Plan(w, f[k + 1].clients))
        /\ ToSet(Plan(w, f[k + 1].clients)) \subseteq ToSet(f[k + 1].clients)
    BY <2>1, <2>2, WorldAfterFacts, PlanFacts
  <2>4. F(k) = Facts(w)
    BY DEF w
  <2> QED BY <2>1, <2>3, <2>4
<1> HIDE DEF F
<1>3. 0 \in T
  <2>1. m <= 0 => m = 0
    OBVIOUS
  <2> QED BY <2>1
<1>4. ASSUME NEW k \in 1..n, k - 1 \in T  PROVE k \in T
  <2>1. k \in 0..n /\ k - 1 \in Nat /\ k - 1 < Len(f) /\ (k - 1) + 1 = k
    BY <1>1
  <2>2. F(k - 1) \subseteq F(k) /\ F(k) \subseteq F(k - 1) \cup ToSet(f[k].clients)
    BY <1>2, <2>1
  <2>3. CASE m <= k - 1
    <3>1. /\ F(m) \subseteq F(k - 1)
          /\ \A c \in F(k - 1) : c \in F(m) \/ \E i \in (m + 1)..(k - 1) : c \in ToSet(f[i].clients)
      BY <1>4, <2>3
    <3>2. \A i \in (m + 1)..(k - 1) : i \in (m + 1)..k
      OBVIOUS
    <3>3. k \in (m + 1)..k
      BY <2>3
    <3> QED BY <2>1, <2>2, <3>1, <3>2, <3>3
  <2>4. CASE ~(m <= k - 1)
    <3>1. m <= k => m = k
      BY <2>4
    <3> QED BY <2>1, <3>1
  <2> QED BY <2>3, <2>4
<1> HIDE DEF T
<1>5. n \in T
  <2>1. \A k \in 0..n : k \in T
    BY <1>3, <1>4, Induction
  <2> QED BY <2>1
<1> QED BY <1>5 DEF T, F

-----------------------------------------------------------------------------
(* The journal keeps its shape.                                              *)

LEMMA EmptyFacts ==
    /\ <<>> \in Seq(JournalRecord) /\ <<>> \in Seq(Seq(Clients)) /\ Len(<<>>) = 0
    /\ Readable(<<>>) /\ AllWhole(<<>>) /\ NoImage \in ImageType /\ GoodImage(NoImage)
<1>1. <<>> \in Seq(JournalRecord) /\ <<>> \in Seq(Seq(Clients)) /\ Len(<<>>) = 0
  BY EmptySeq
<1>2. Readable(<<>>) /\ AllWhole(<<>>)
  BY <1>1 DEF Readable, AllWhole
<1> QED BY <1>1, <1>2 DEF NoImage, ImageType, GoodImage

LEMMA UnappliedFacts ==
    ASSUME FlowTyped
    PROVE  /\ Unapplied \in Seq(EpochBatch) /\ Len(Unapplied) \in Nat
           /\ held = NoEpoch => Unapplied = backlog
           /\ held # NoEpoch =>
                /\ Len(Unapplied) = Len(backlog) + 1 /\ Unapplied[1] = held
                /\ \A i \in 1..Len(backlog) : Unapplied[i + 1] = backlog[i]
<1>1. backlog \in Seq(EpochBatch) /\ held \in EpochBatch /\ Len(backlog) \in Nat
  BY LenProperties DEF FlowTyped, WorkerTyped
<1>2. CASE held = NoEpoch
  BY <1>1, <1>2 DEF Unapplied
<1>3. CASE held # NoEpoch
  <2>1. <<held>> \in Seq(EpochBatch) /\ Len(<<held>>) = 1 /\ <<held>>[1] = held
    BY <1>1
  <2>2. /\ <<held>> \o backlog \in Seq(EpochBatch)
        /\ Len(<<held>> \o backlog) = 1 + Len(backlog)
        /\ \A i \in 1..(1 + Len(backlog)) :
             (<<held>> \o backlog)[i] = IF i <= 1 THEN <<held>>[i] ELSE backlog[i - 1]
    BY <1>1, <2>1, ConcatProperties
  <2>3. Unapplied = <<held>> \o backlog
    BY <1>3 DEF Unapplied
  <2> HIDE DEF Unapplied
  <2>4. Unapplied[1] = held
    BY <1>1, <2>1, <2>2, <2>3
  <2>5. ASSUME NEW i \in 1..Len(backlog)  PROVE Unapplied[i + 1] = backlog[i]
    <3>1. i + 1 \in 1..(1 + Len(backlog)) /\ ~(i + 1 <= 1) /\ (i + 1) - 1 = i
      BY <1>1
    <3> QED BY <2>2, <2>3, <3>1
  <2> QED BY <1>1, <1>3, <2>2, <2>3, <2>4, <2>5
<1> QED BY <1>2, <1>3

LEMMA InitShape == Init => Shape
<1> SUFFICES ASSUME Init  PROVE Shape
  OBVIOUS
<1>1. StorageTyped /\ Recoverable /\ Images
  BY EmptyFacts DEF Init, StorageTyped, Recoverable, Images, Snapshotting
<1>2. Durable /\ Aligned /\ Writing
  BY DEF Init, Durable, Aligned, Writing, Receiving, Alive
<1> QED BY <1>1, <1>2 DEF Shape

\* The worker or the caller moves on and leaves the journal and its epochs alone.
LEMMA TurnShape ==
    ASSUME Shape, taken' \in ImageType,
           UNCHANGED <<storage, images, fileLen, durableEpochs, appliedEpochs, nextEpoch,
                       inflight, kernel, held, backlog, doomed, current>>,
           \/ worker' = worker
           \/ Receiving /\ Receiving' /\ worker' # "repairsync"
    PROVE  StorageTyped' /\ Recoverable' /\ Durable' /\ Writing' /\ Aligned'
<1> USE DEF storage, images
<1>1. StorageTyped' /\ Recoverable' /\ Durable'
  BY DEF Shape, StorageTyped, Recoverable, Durable, Receiving, Alive
<1>2. Writing'
  BY DEF Shape, Writing, Receiving, Alive
<1>3. Unapplied' = Unapplied
  BY DEF Unapplied
<1>4. Aligned'
  BY <1>3 DEF Shape, Aligned, Receiving, Alive
<1> QED BY <1>1, <1>2, <1>4

\* What the worker turns to with the command it has taken.
LEMMA TakenTurn ==
    ASSUME Flow, TakeCommand
    PROVE  /\ Commands # <<>> /\ Command = Head(Commands) /\ Commands' = Tail(Commands)
           /\ Commands \in Seq(CommandType) /\ Command \in CommandType
           /\ ClientsOf(Commands) = ToSet(Command.clients) \cup ClientsOf(Commands')
           /\ worker \in {"fill", "overlap"}
           /\ worker' \in {"apply", "materialize", "claim", "submit"}
<1>1. Commands # <<>> /\ Command = Head(Commands)
  BY DEF TakeCommand, Command, Commands
<1>2. /\ Commands \in Seq(CommandType) /\ Head(Commands) \in CommandType
      /\ Commands' = Tail(Commands)
      /\ ClientsOf(Commands) = ToSet(Head(Commands).clients) \cup ClientsOf(Commands')
  <2>1. pending' = (IF pending = <<>> THEN <<>> ELSE Tail(pending))
        /\ queue' = (IF pending = <<>> THEN Tail(queue) ELSE queue)
    BY DEF TakeCommand
  <2> QED BY <1>1, <2>1, CommandsTaken, CommandsTyped DEF Flow, FlowTyped, ChannelTyped
<1>3. Command.kind \in {"Intent", "Epoch", "Barrier"}
  BY <1>1, <1>2 DEF CommandType
<1>4. AfterSeeking \in {"apply", "materialize"} /\ worker \in {"fill", "overlap"}
  BY DEF AfterSeeking, TakeCommand, Seeking
<1>5. worker' \in {AfterSeeking, "claim", "submit"}
  BY <1>3 DEF TakeCommand
<1> QED BY <1>1, <1>2, <1>4, <1>5

LEMMA UsersShape ==
    ASSUME Flow, Shape,
           \/ \E kind \in {"Intent", "Epoch"}, clients \in Seq(Clients) : Send(kind, clients)
           \/ Shutdown \/ FlushLock \/ FlushSend \/ FlushReturns \/ FlushStopped
           \/ TakeCommand \/ NoCommand \/ Claim \/ ClaimSetsAside \/ ClaimEnds
    PROVE  Shape'
<1> USE DEF storage, images, ingress, answers, callerVars, workerVars, history
<1>1. UNCHANGED <<storage, images, fileLen, durableEpochs, appliedEpochs, nextEpoch,
                  inflight, kernel, held, backlog, doomed, current, taken>>
  BY DEF Send, Shutdown, FlushLock, FlushSend, FlushReturns, FlushStopped,
     TakeCommand, NoCommand, Claim, ClaimSetsAside, ClaimEnds
<1>2. worker' = worker \/ (Receiving /\ Receiving' /\ worker' # "repairsync")
  BY TakenTurn DEF Send, Shutdown, FlushLock, FlushSend, FlushReturns, FlushStopped,
     NoCommand, Claim, ClaimSetsAside, ClaimEnds, Receiving, Alive, Seeking, AfterSeeking
<1>3. \/ caller' = caller /\ (raced' = raced \/ (Snapshotting => raced'))
      \/ caller' \in {"idle", "sending", "waiting"}
      \/ caller = "answered" /\ caller' = "flushed"
  BY DEF Send, Shutdown, FlushLock, FlushSend, FlushReturns, FlushStopped,
     TakeCommand, NoCommand, Claim, ClaimSetsAside, ClaimEnds
<1>4. Images'
  BY <1>1, <1>3 DEF Shape, Images, Snapshotting
<1>5. taken' \in ImageType
  BY <1>1 DEF Shape, StorageTyped
<1> QED BY <1>1, <1>2, <1>4, <1>5, TurnShape DEF Shape

LEMMA AnswerBarrierShape ==
    ASSUME Flow, Shape, AnswerBarrier
    PROVE  Shape'
<1> USE DEF storage, images, ingress, answers, history
<1>1. /\ UNCHANGED <<storage, images, fileLen, durableEpochs, appliedEpochs, nextEpoch,
                     inflight, kernel, held, backlog, doomed, current, taken>>
      /\ worker = "apply" /\ worker' = "fill" /\ backlog = <<>> /\ caller' = "answered"
  BY DEF AnswerBarrier
<1>2. held = NoEpoch /\ inflight = NoEpoch /\ ~doomed /\ Receiving /\ Receiving'
  BY <1>1 DEF Flow, Phases, Receiving, Alive
<1>3. Unapplied = <<>> /\ Len(Unapplied) = 0
  BY <1>1, <1>2, EmptyFacts DEF Unapplied
<1>4. appliedEpochs = fileLen /\ Len(file) = fileLen
  BY <1>2, <1>3 DEF Shape, Aligned, Writing, StorageTyped
<1>5. Images'
  BY <1>1, <1>4 DEF Shape, Images, Snapshotting
<1>6. taken' \in ImageType
  BY <1>1 DEF Shape, StorageTyped
<1> QED BY <1>1, <1>2, <1>5, <1>6, TurnShape DEF Shape

LEMMA SnapshotShape ==
    ASSUME Flow, Shape, Snapshot
    PROVE  Shape'
<1> USE DEF storage, images, ingress, answers, workerVars, history
<1>1. CASE CallEnds \/ SnapshotWorld \/ SnapshotJournal
  <2>1. UNCHANGED <<storage, images, worker, fileLen, durableEpochs, appliedEpochs, nextEpoch,
                    inflight, kernel, held, backlog, doomed, current>>
    BY <1>1 DEF CallEnds, SnapshotWorld, SnapshotJournal
  <2>2. taken' \in ImageType /\ (caller' = "journal" => taken'.journal = file)
    <3>1. CASE CallEnds
      BY <3>1, EmptyFacts DEF CallEnds
    <3>2. CASE SnapshotWorld
      BY <3>2, EmptyFacts DEF SnapshotWorld, Shape, StorageTyped, ImageType
    <3>3. CASE SnapshotJournal
      BY <3>3 DEF SnapshotJournal, Flow, FlowTyped, FileTyped, Shape, StorageTyped, ImageType
    <3> QED BY <1>1, <3>1, <3>2, <3>3
  <2>3. Images'
    BY <1>1, <2>1, <2>2 DEF Shape, Images, Snapshotting, CallEnds, SnapshotWorld, SnapshotJournal
  <2> QED BY <2>1, <2>2, <2>3, TurnShape DEF Shape
<1>2. CASE SnapshotRename
  <2>1. /\ UNCHANGED <<storage, diskImage, worker, fileLen, durableEpochs, appliedEpochs,
                       nextEpoch, inflight, kernel, held, backlog, doomed, current, taken>>
        /\ caller = "journal" /\ caller' = "renamed"
        /\ image' = [taken EXCEPT !.count = durableEpochs, !.valid = TRUE, !.quiet = ~raced]
    BY <1>2 DEF SnapshotRename
  <2>2. ~raced => /\ durableEpochs = fileLen /\ Len(file) = fileLen /\ AllWhole(file)
                  /\ Readable(file) /\ taken.journal = file
    BY <2>1 DEF Flow, Barriers, Shape, Durable, Images, Snapshotting, AllWhole, Recoverable
  <2>3. /\ image' \in ImageType /\ image'.journal = taken.journal
        /\ image'.count = durableEpochs /\ image'.quiet = ~raced
    BY <2>1 DEF Flow, FlowTyped, FileTyped, Shape, StorageTyped, ImageType
  <2>4. GoodImage(image')
    BY <2>2, <2>3 DEF GoodImage
  <2>5. Images'
    BY <2>1, <2>4 DEF Shape, Images, Snapshotting
  <2>6. StorageTyped' /\ Recoverable' /\ Durable'
    BY <2>1, <2>3 DEF Shape, StorageTyped, Recoverable, Durable, Alive
  <2>7. Unapplied' = Unapplied
    BY <2>1 DEF Unapplied
  <2>8. Writing' /\ Aligned'
    BY <2>1, <2>7 DEF Shape, Writing, Aligned, Receiving, Alive
  <2> QED BY <2>5, <2>6, <2>8 DEF Shape
<1>3. CASE SnapshotSync
  <2>1. /\ UNCHANGED <<storage, image, worker, fileLen, durableEpochs, appliedEpochs,
                       nextEpoch, inflight, kernel, held, backlog, doomed, current>>
        /\ caller' = "idle" /\ diskImage' = image /\ taken' = NoImage
    BY <1>3 DEF SnapshotSync
  <2>2. Images'
    BY <2>1 DEF Shape, Images, Snapshotting
  <2>3. StorageTyped' /\ Recoverable' /\ Durable'
    BY <2>1, EmptyFacts DEF Shape, StorageTyped, Recoverable, Durable, Alive
  <2>4. Unapplied' = Unapplied
    BY <2>1 DEF Unapplied
  <2>5. Writing' /\ Aligned'
    BY <2>1, <2>4 DEF Shape, Writing, Aligned, Receiving, Alive
  <2> QED BY <2>2, <2>3, <2>5 DEF Shape
<1> QED BY <1>1, <1>2, <1>3 DEF Snapshot

\* From a flush's answer until somebody submits or the call ends.
Resting == caller = "answered" \/ (Snapshotting /\ ~raced)

LEMMA RestingWorker ==
    ASSUME Flow, Resting
    PROVE  worker \in {"fill", "apply", "stopped"} /\ backlog = <<>> /\ kernel = "none"
           /\ inflight = NoEpoch
BY DEF Flow, Idle, Phases, Resting

LEMMA ImagesKept ==
    ASSUME Shape, UNCHANGED <<image, diskImage>>, ~Resting'
    PROVE  Images'
BY DEF Shape, Images, Resting, Snapshotting

LEMMA PrefixReadable ==
    ASSUME NEW f \in Seq(JournalRecord), Readable(f), NEW n \in Nat, n <= Len(f)
    PROVE  Readable(SubSeq(f, 1, n))
<1> DEFINE p == SubSeq(f, 1, n)
<1>1. Len(p) = n /\ Len(f) \in Nat /\ \A i \in 1..n : p[i] = f[i]
  BY PrefixFacts, LenProperties
<1> HIDE DEF p
<1>2. Readable(p)
  BY <1>1 DEF Readable
<1> QED BY <1>2 DEF p

LEMMA GoodPrefixReadable ==
    ASSUME NEW f \in Seq(JournalRecord), Readable(f)
    PROVE  Readable(GoodPrefix(f)) /\ AllWhole(GoodPrefix(f))
<1>1. /\ Len(GoodPrefix(f)) \in Nat /\ Len(GoodPrefix(f)) <= Len(f) /\ Len(f) \in Nat
      /\ \A i \in 1..Len(GoodPrefix(f)) : GoodPrefix(f)[i] = f[i]
      /\ Len(GoodPrefix(f)) < Len(f) <=> TornTail(f)
      /\ GoodPrefix(f) = SubSeq(f, 1, Len(GoodPrefix(f)))
  BY GoodPrefixFacts, LenProperties
<1>2. Readable(GoodPrefix(f))
  BY <1>1, PrefixReadable
<1>3. ASSUME NEW i \in 1..Len(GoodPrefix(f))  PROVE GoodPrefix(f)[i].whole
  <2>1. CASE i = Len(f)
    <3>1. ~TornTail(f) /\ f # <<>>
      BY <1>1, <2>1, EmptySeq
    <3> QED BY <1>1, <2>1, <3>1 DEF TornTail
  <2>2. CASE i # Len(f)
    BY <1>1, <2>2 DEF Readable
  <2> QED BY <2>1, <2>2
<1> QED BY <1>2, <1>3 DEF AllWhole

LEMMA WritebackReadable ==
    ASSUME NEW d \in Seq(JournalRecord), NEW f \in Seq(JournalRecord), Readable(f),
           NEW img \in Writebacks(d, f)
    PROVE  Readable(img) /\ (d = f => img = f)
<1>1. /\ img \in Seq(JournalRecord) /\ Len(img) <= Len(f)
      /\ \A i \in 1..Len(img) : img[i].id = f[i].id
      /\ \A i \in 1..Len(img) : i < Len(img) => img[i] = f[i]
      /\ \A i \in 1..Len(f) :
           (i <= Len(d) /\ \A j \in 1..i : d[j] = f[j]) => i <= Len(img) /\ img[i] = f[i]
  BY WritebackFacts
<1>2. Len(img) \in Nat /\ Len(f) \in Nat
  BY <1>1, LenProperties
<1>3. Readable(img)
  <2>1. \A i \in 1..Len(img) : i \in 1..Len(f)
    BY <1>1, <1>2
  <2>2. \A i \in 1..Len(f) : (~f[i].whole => i = Len(f)) /\ f[i].id = i
    BY DEF Readable
  <2>3. ASSUME NEW i \in 1..Len(img)  PROVE img[i].id = i
    BY <1>1, <2>1, <2>2, <2>3
  <2>4. ASSUME NEW i \in 1..Len(img), i # Len(img)  PROVE img[i].whole
    <3>1. i < Len(img) /\ i # Len(f) /\ i \in 1..Len(f)
      BY <1>1, <1>2, <2>1, <2>4
    <3>2. img[i] = f[i]
      BY <1>1, <3>1
    <3> QED BY <2>2, <3>1, <3>2
  <2> QED BY <2>3, <2>4 DEF Readable
<1>4. ASSUME d = f  PROVE img = f
  <2>1. \A i \in 1..Len(f) : i <= Len(img) /\ img[i] = f[i]
    BY <1>1, <1>2, <1>4
  <2>2. Len(img) = Len(f)
    BY <1>1, <1>2, <2>1
  <2> QED BY <1>1, <2>1, <2>2, SeqEqual
<1> QED BY <1>3, <1>4

\* In a readable journal only the last record is torn.
LEMMA TruncateFacts ==
    ASSUME Flow, Shape, OpenTruncate
    PROVE  file' = GoodPrefix(file)
<1>1. file \in Seq(JournalRecord) /\ Len(file) \in Nat
  BY LenProperties DEF Flow, FlowTyped, FileTyped
<1>2. PICK n \in 1..Len(file) : ~file[n].whole /\ file' = SubSeq(file, 1, n - 1)
  BY DEF OpenTruncate
<1>3. n = Len(file)
  BY <1>2 DEF Shape, Recoverable, Readable
<1>4. file # <<>>
  BY <1>1, <1>3, EmptySeq
<1> QED BY <1>2, <1>3, <1>4 DEF GoodPrefix, TornTail

LEMMA StartedShape ==
    ASSUME Flow, Shape, NEW count, NEW world \in Seq(Seq(Clients)), ~Alive, UNCHANGED storage,
           Started(Len(file), count, world), count = Len(file), AllWhole(file)
    PROVE  Shape'
<1> USE DEF storage, images, callerVars
<1>1. Len(file) \in Nat
  BY LenProperties DEF Flow, FlowTyped, FileTyped
<1>2. ~Resting'
  BY DEF Flow, Barriers, Started, Resting, Snapshotting
<1>3. Unapplied' = <<>> /\ Len(Unapplied') = 0
  BY EmptyFacts DEF Started, Unapplied
<1>4. /\ UNCHANGED <<image, diskImage, taken>> /\ worker' = "fill" /\ kernel' = "none"
      /\ inflight' = NoEpoch /\ nextEpoch' = Len(file) + 1 /\ fileLen' = Len(file)
      /\ durableEpochs' = Len(file) /\ appliedEpochs' = Len(file) /\ current' = world
  BY DEF Started
<1>5. StorageTyped' /\ Recoverable'
  BY <1>1, <1>4 DEF Shape, StorageTyped, Recoverable
<1>6. Durable' /\ Writing' /\ Aligned'
  BY <1>1, <1>3, <1>4 DEF Durable, Writing, Aligned, AllWhole
<1>7. Images'
  BY <1>2, <1>4, ImagesKept
<1> QED BY <1>5, <1>6, <1>7 DEF Shape

LEMMA OpenShape ==
    ASSUME Flow, Shape, Open, ~misled'
    PROVE  Shape'
<1> USE DEF storage, images, ingress, answers, callerVars, workerVars, history
<1>0. file \in Seq(JournalRecord) /\ disk \in Seq(JournalRecord) /\ Readable(file)
  BY DEF Flow, FlowTyped, FileTyped, Shape, Recoverable
<1>1. CASE OpenFromImage
  <2>1. image.valid /\ image.journal = file /\ ~Alive
        /\ Started(Len(file), image.count, image.world)
    BY <1>1 DEF OpenFromImage, ImageMatches, Alive
  <2>4. image.quiet
    BY <1>1 DEF OpenFromImage
  <2>2. image.count = Len(file) /\ AllWhole(file) /\ image.world \in Seq(Seq(Clients))
    BY <2>1, <2>4 DEF Shape, Images, GoodImage, StorageTyped, ImageType
  <2>3. UNCHANGED storage
    BY <1>1 DEF OpenFromImage
  <2> QED BY <2>1, <2>2, <2>3, StartedShape
<1>2. CASE Replay
  <2>1. ~Alive /\ AllWhole(file) /\ Started(Len(file), Len(file), Projection(file))
        /\ UNCHANGED storage
    BY <1>2 DEF Replay, Shape, Recoverable, Alive
  <2>2. Projection(file) \in Seq(Seq(Clients))
    BY <1>0, ProjectionTyped
  <2> QED BY <2>1, <2>2, StartedShape
<1>3. CASE OpenClean \/ OpenTruncate \/ OpenSync
  <2>1. /\ UNCHANGED <<image, diskImage, taken, caller, kernel, inflight, appliedEpochs, current>>
        /\ file' \in {file, GoodPrefix(file)} /\ disk' \in {disk, file}
        /\ worker \in {"down", "opensync"} /\ worker' \in {"opensync", "replay"}
    BY <1>3, TruncateFacts DEF OpenClean, OpenTruncate, OpenSync
  <2>2. Readable(GoodPrefix(file)) /\ AllWhole(GoodPrefix(file))
    BY <1>0, GoodPrefixReadable
  <2>3. AllWhole(file')
    <3>1. CASE OpenClean
      BY <2>2, <3>1 DEF OpenClean, GoodPrefix
    <3>2. CASE OpenTruncate
      BY <2>2, <3>2, TruncateFacts
    <3>3. CASE OpenSync
      BY <3>3 DEF OpenSync, Shape, Recoverable
    <3> QED BY <1>3, <3>1, <3>2, <3>3
  <2>4. kernel' = "none" /\ inflight' = NoEpoch /\ ~Resting'
    BY <2>1 DEF Flow, Phases, Barriers, Resting, Snapshotting, Alive
  <2>5. StorageTyped' /\ Recoverable'
    BY <1>0, <2>1, <2>2, <2>3 DEF Shape, StorageTyped, Recoverable
  <2>6. Durable' /\ Writing' /\ Aligned'
    BY <2>1, <2>4 DEF Durable, Writing, Aligned, Receiving, Alive
  <2> QED BY <2>1, <2>4, <2>5, <2>6, ImagesKept DEF Shape
<1> QED BY <1>1, <1>2, <1>3 DEF Open

LEMMA SubmitAdmissionShape ==
    ASSUME Flow, Flow', Shape, SubmitAdmission
    PROVE  Shape'
<1> USE DEF storage, images, ingress, answers, callerVars, history
<1>1. /\ UNCHANGED <<storage, image, diskImage, taken, caller, raced, held, backlog, doomed,
                     fileLen, durableEpochs, appliedEpochs, current>>
      /\ worker = "submit" /\ worker' \in {"complete", "materialize"} /\ kernel' = "queued"
      /\ nextEpoch' = nextEpoch + 1 /\ inflight' = [id |-> nextEpoch, clients |-> batch]
  BY DEF SubmitAdmission
<1>2. /\ inflight = NoEpoch /\ inflight' # NoEpoch /\ Receiving /\ Receiving' /\ ~Resting'
      /\ inflight'.id = nextEpoch /\ nextEpoch = fileLen + 1 /\ Len(file) = fileLen
      /\ fileLen \in Nat
  BY <1>1, RestingWorker DEF Flow, FlowTyped, FileTyped, Phases, Shape, Writing, Receiving,
     Alive, Resting, Snapshotting
<1>3. StorageTyped' /\ Recoverable' /\ Durable'
  BY <1>1 DEF Shape, StorageTyped, Recoverable, Durable, Alive
<1>4. Writing'
  BY <1>1, <1>2 DEF Writing
<1>5. Unapplied' = Unapplied
  BY <1>1 DEF Unapplied
<1>6. Aligned'
  BY <1>1, <1>2, <1>5 DEF Shape, Aligned
<1> QED BY <1>1, <1>2, <1>3, <1>4, <1>6, ImagesKept DEF Shape

LEMMA CompleteShape ==
    ASSUME Flow, Shape, Complete
    PROVE  Shape'
<1> USE DEF storage, images, ingress, callerVars, history
<1>1. /\ UNCHANGED <<storage, image, diskImage, taken, caller, raced, held, doomed, nextEpoch,
                     appliedEpochs, current>>
      /\ worker = "complete" /\ worker' = "fill" /\ kernel = "synced" /\ kernel' = "none"
      /\ inflight' = NoEpoch /\ backlog' = Append(backlog, inflight)
      /\ fileLen' = fileLen + 1 /\ durableEpochs' = durableEpochs + 1 /\ ~doomed
  BY DEF Complete
<1>2. /\ inflight # NoEpoch /\ Receiving /\ Receiving' /\ ~Resting' /\ held = NoEpoch
      /\ Alive /\ Alive' /\ nextEpoch = fileLen + 2 /\ Len(file) = fileLen + 1
      /\ file[fileLen + 1] = Record(inflight) /\ fileLen \in Nat
      /\ inflight \in EpochBatch /\ backlog \in Seq(EpochBatch) /\ appliedEpochs \in Nat
  BY <1>1, RestingWorker DEF Flow, FlowTyped, FileTyped, WorkerTyped, Phases, Offset, Shape,
     StorageTyped, Writing, Receiving, Alive, Resting, Snapshotting
<1>3. file[fileLen + 1].whole = TRUE
  BY <1>2, RecordFields
<1>4. \A i \in 1..(fileLen + 1) : file[i].whole
  BY <1>2, <1>3 DEF Shape, Durable
<1>5. StorageTyped' /\ Recoverable' /\ Durable'
  BY <1>1, <1>2, <1>4 DEF Shape, StorageTyped, Recoverable, Durable
<1>6. Writing'
  BY <1>1, <1>2 DEF Writing
<1>7. /\ Unapplied = backlog /\ Unapplied' = backlog' /\ Len(backlog) \in Nat
      /\ Len(backlog') = Len(backlog) + 1 /\ backlog'[Len(backlog) + 1] = inflight
      /\ \A i \in 1..Len(backlog) : backlog'[i] = backlog[i]
  BY <1>1, <1>2, AppendFacts DEF Unapplied
<1>8. appliedEpochs + Len(backlog) = fileLen
      /\ \A i \in 1..Len(backlog) : file[appliedEpochs + i] = Record(backlog[i])
  BY <1>1, <1>2, <1>7 DEF Shape, Aligned
<1>9. \A i \in 1..Len(backlog') : file[appliedEpochs + i] = Record(backlog'[i])
  <2> TAKE i \in 1..Len(backlog')
  <2>1. CASE i = Len(backlog) + 1
    <3>1. /\ fileLen \in Nat /\ appliedEpochs \in Nat /\ Len(backlog) \in Nat
          /\ appliedEpochs + Len(backlog) = fileLen
      BY <1>2, <1>7, <1>8
    <3>2. appliedEpochs + i = fileLen + 1
      BY <2>1, <3>1
    <3> QED BY <1>2, <1>7, <2>1, <3>2
  <2>2. CASE i # Len(backlog) + 1
    <3>1. i \in 1..Len(backlog)
      BY <1>7, <2>2
    <3> QED BY <1>7, <1>8, <3>1
  <2> QED BY <2>1, <2>2
<1>10. appliedEpochs + Len(backlog') = fileLen + 1
  BY <1>2, <1>7, <1>8
<1>11. Aligned'
  BY <1>1, <1>7, <1>9, <1>10 DEF Aligned
<1> QED BY <1>1, <1>2, <1>5, <1>6, <1>11, ImagesKept DEF Shape

LEMMA RepairShape ==
    ASSUME Flow, Shape, CompleteFails \/ RepairTruncate
    PROVE  Shape'
<1> USE DEF storage, images, ingress, answers, callerVars, workerVars, history
<1>1. /\ UNCHANGED <<disk, image, diskImage, taken, caller, raced, held, backlog, doomed, nextEpoch,
                     inflight, fileLen, durableEpochs, appliedEpochs, current>>
      /\ worker \in {"complete", "repair"} /\ worker' \in {"repair", "repairsync"}
      /\ kernel' = "none"
      /\ worker' = "repair" => file' = file
      /\ worker' = "repairsync" => file' = SubSeq(file, 1, fileLen)
      /\ file' \in {file, SubSeq(file, 1, fileLen)}
  BY DEF CompleteFails, RepairTruncate, Flow, Phases
<1>2. /\ inflight # NoEpoch /\ Receiving /\ Receiving' /\ Alive /\ Alive' /\ ~Resting'
      /\ file \in Seq(JournalRecord) /\ fileLen \in Nat /\ fileLen <= Len(file)
      /\ held = NoEpoch /\ Len(file) <= fileLen + 1 /\ appliedEpochs \in Nat
      /\ inflight.id = fileLen + 1 /\ nextEpoch = fileLen + 2
  BY <1>1, RestingWorker DEF Flow, FlowTyped, FileTyped, Phases, Offset, Shape,
     StorageTyped, Writing, Receiving, Alive, Resting, Snapshotting
<1> DEFINE s == SubSeq(file, 1, fileLen)
<1>3. s \in Seq(JournalRecord) /\ Len(s) = fileLen /\ \A i \in 1..fileLen : s[i] = file[i]
  BY <1>2, PrefixFacts
<1>4. Readable(s) /\ Readable(file)
  BY <1>2, PrefixReadable DEF Shape, Recoverable
<1>5. file' = file \/ file' = s
  BY <1>1
<1>6. worker' = "repairsync" => file' = s
  BY <1>1
<1> HIDE DEF s
<1>7. \A i \in 1..fileLen : file'[i] = file[i]
  BY <1>3, <1>5
<1>8. StorageTyped' /\ Recoverable'
  BY <1>1, <1>4, <1>5 DEF Shape, StorageTyped, Recoverable
<1>9. Durable'
  BY <1>1, <1>2, <1>7 DEF Shape, Durable
<1>10. Writing'
  <2>1. Len(file') = fileLen + 1 => file'[fileLen + 1].clients = inflight.clients
    BY <1>2, <1>3, <1>5 DEF Shape, Writing
  <2>2. Len(file') <= fileLen + 1
    BY <1>2, <1>3, <1>5
  <2>3. worker' = "repairsync" => Len(file') = fileLen
    BY <1>3, <1>6
  <2> QED BY <1>1, <1>2, <2>1, <2>2, <2>3 DEF Writing
<1>11. Unapplied' = Unapplied /\ Len(Unapplied) \in Nat
  BY <1>1, UnappliedFacts DEF Unapplied, Flow
<1>12. Aligned'
  <2> SUFFICES ASSUME ~doomed
               PROVE  /\ appliedEpochs + Len(Unapplied) = fileLen
                      /\ \A i \in 1..Len(Unapplied) :
                           file'[appliedEpochs + i] = Record(Unapplied[i])
    BY <1>1, <1>11 DEF Aligned
  <2>1. /\ appliedEpochs + Len(Unapplied) = fileLen
        /\ \A i \in 1..Len(Unapplied) : file[appliedEpochs + i] = Record(Unapplied[i])
    BY <1>2 DEF Shape, Aligned
  <2>2. \A i \in 1..Len(Unapplied) : appliedEpochs + i \in 1..fileLen
    BY <1>2, <1>11, <2>1
  <2> QED BY <1>7, <2>1, <2>2
<1> QED BY <1>1, <1>2, <1>8, <1>9, <1>10, <1>12, ImagesKept DEF Shape

LEMMA PopDurableShape ==
    ASSUME Flow, Shape, PopDurable
    PROVE  Shape'
<1> USE DEF storage, images, ingress, answers, callerVars, history
<1>1. /\ UNCHANGED <<storage, image, diskImage, taken, caller, raced, doomed, nextEpoch, inflight,
                     kernel, fileLen, durableEpochs, appliedEpochs, current>>
      /\ worker = "apply" /\ worker' = "overlap" /\ backlog # <<>>
      /\ held' = Head(backlog) /\ backlog' = Tail(backlog)
  BY DEF PopDurable
<1>2. /\ held = NoEpoch /\ Receiving /\ Receiving' /\ Alive /\ Alive' /\ ~Resting'
      /\ backlog \in Seq(EpochBatch)
  BY <1>1, RestingWorker DEF Flow, FlowTyped, WorkerTyped, Phases, Receiving, Alive,
     Resting, Snapshotting
<1>3. /\ Len(backlog) \in 1..Len(backlog) /\ 1 \in 1..Len(backlog) /\ Head(backlog) = backlog[1]
  BY <1>1, <1>2, HeadTailFacts
<1>4. held' # NoEpoch
  BY <1>1, <1>3 DEF Flow, Phases
<1>5. Unapplied' = Unapplied
  <2>1. SubSeq(backlog, 1, Len(backlog)) = <<backlog[1]>> \o SubSeq(backlog, 1 + 1, Len(backlog))
    BY <1>2, <1>3, SubSeqRecursiveFirst
  <2>2. SubSeq(backlog, 1, Len(backlog)) = backlog
    BY <1>2, SubSeqFull
  <2>3. Tail(backlog) = SubSeq(backlog, 2, Len(backlog))
    BY <1>1, <1>2, TailIsSubSeq
  <2>4. backlog = <<held'>> \o backlog'
    BY <1>1, <1>3, <2>1, <2>2, <2>3
  <2> QED BY <1>2, <1>4, <2>4 DEF Unapplied
<1>6. StorageTyped' /\ Recoverable' /\ Durable'
  BY <1>1, <1>2 DEF Shape, StorageTyped, Recoverable, Durable
<1>7. Writing' /\ Aligned'
  BY <1>1, <1>2, <1>5 DEF Shape, Writing, Aligned
<1> QED BY <1>1, <1>2, <1>6, <1>7, ImagesKept DEF Shape

LEMMA MaterializeShape ==
    ASSUME Flow, Shape, Materialize \/ MaterializePanicsFirst
    PROVE  Shape'
<1> USE DEF storage, images, ingress, callerVars, history
<1>1. /\ UNCHANGED <<storage, image, diskImage, taken, caller, raced, nextEpoch, inflight, backlog,
                     kernel, fileLen, durableEpochs>>
      /\ worker = "materialize" /\ worker' \in {"fill", "complete"} /\ held' = NoEpoch
  BY DEF Materialize, MaterializePanicsFirst, Panics
<1>2. /\ held # NoEpoch /\ ~doomed /\ Receiving /\ Receiving' /\ Alive /\ Alive' /\ ~Resting'
      /\ held \in EpochBatch /\ appliedEpochs \in Nat /\ fileLen \in Nat
  BY <1>1, RestingWorker DEF Flow, FlowTyped, WorkerTyped, FileTyped, Phases, Receiving,
     Alive, Resting, Snapshotting, Shape, StorageTyped
<1>3. /\ Len(backlog) \in Nat /\ Len(Unapplied) = Len(backlog) + 1
      /\ \A i \in 1..Len(backlog) : Unapplied[i + 1] = backlog[i]
  BY <1>2, UnappliedFacts, LenProperties DEF Flow, FlowTyped, WorkerTyped
<1>4. /\ appliedEpochs + Len(Unapplied) = fileLen
      /\ \A i \in 1..Len(Unapplied) : file[appliedEpochs + i] = Record(Unapplied[i])
  BY <1>2 DEF Shape, Aligned
<1>5. Unapplied' = backlog
  BY <1>1 DEF Unapplied
<1>6. /\ appliedEpochs + 1 <= fileLen /\ appliedEpochs + 1 + Len(backlog) = fileLen
      /\ \A i \in 1..Len(backlog) : /\ i + 1 \in 1..Len(Unapplied)
                                    /\ appliedEpochs + (i + 1) = (appliedEpochs + 1) + i
  BY <1>2, <1>3, <1>4
<1>7. Recoverable' /\ Writing'
  BY <1>1, <1>2 DEF Shape, Recoverable, Writing
<1>8. CASE Materialize
  <2>1. appliedEpochs' = appliedEpochs + 1 /\ current' = WorldAfter(current, held.clients)
    BY <1>8 DEF Materialize
  <2>2. current' \in Seq(Seq(Clients))
    BY <1>2, <2>1, WorldAfterFacts DEF Shape, StorageTyped, EpochBatch
  <2>3. StorageTyped' /\ Durable'
    BY <1>1, <1>2, <1>6, <2>1, <2>2 DEF Shape, StorageTyped, Durable
  <2>4. \A i \in 1..Len(backlog) : file[(appliedEpochs + 1) + i] = Record(backlog[i])
    <3> TAKE i \in 1..Len(backlog)
    <3>1. file[appliedEpochs + (i + 1)] = Record(Unapplied[i + 1])
      BY <1>4, <1>6
    <3> QED BY <1>3, <1>6, <3>1
  <2>5. Aligned'
    BY <1>1, <1>5, <1>6, <2>1, <2>4 DEF Aligned
  <2> QED BY <1>1, <1>2, <1>7, <2>3, <2>5, ImagesKept DEF Shape
<1>9. CASE MaterializePanicsFirst
  <2>1. doomed' = TRUE /\ UNCHANGED <<appliedEpochs, current>>
    BY <1>9 DEF MaterializePanicsFirst
  <2>2. StorageTyped' /\ Durable' /\ Aligned'
    BY <1>1, <1>2, <2>1 DEF Shape, StorageTyped, Durable, Aligned
  <2> QED BY <1>1, <1>2, <1>7, <2>2, ImagesKept DEF Shape
<1> QED BY <1>8, <1>9

LEMMA ReturnsShape ==
    ASSUME Shape, NEW receipts, NEW failed, Returns(receipts, failed), Alive,
           file' = file, disk' \in {disk, file}, fileLen' \in Nat,
           durableEpochs' = fileLen', appliedEpochs <= fileLen',
           \A i \in 1..fileLen' : file[i].whole,
           Resting => fileLen' = fileLen
    PROVE  Shape'
<1> USE DEF storage, images, callerVars
<1>1. /\ UNCHANGED <<image, diskImage, taken, caller, raced, nextEpoch, appliedEpochs, current>>
      /\ worker' = "stopped" /\ inflight' = NoEpoch /\ kernel' = "none"
  BY DEF Returns
<1>2. StorageTyped' /\ Recoverable'
  BY <1>1 DEF Shape, StorageTyped, Recoverable
<1>3. Durable' /\ Writing' /\ Aligned'
  BY <1>1 DEF Durable, Writing, Aligned, Receiving
<1>4. Images'
  BY <1>1 DEF Shape, Images, Resting, Snapshotting
<1> QED BY <1>2, <1>3, <1>4 DEF Shape

LEMMA StoppingShape ==
    ASSUME Flow, Shape,
           \/ SubmissionFails \/ CompleteDoomed \/ RepairSync \/ RepairFails
           \/ MaterializePanics \/ WorkerEnds
    PROVE  Shape'
<1> USE DEF storage
<1>1. /\ Alive /\ fileLen \in Nat /\ durableEpochs = fileLen /\ appliedEpochs <= fileLen
      /\ appliedEpochs \in Nat /\ \A i \in 1..fileLen : file[i].whole
  BY DEF SubmissionFails, CompleteDoomed, RepairSync, RepairFails, MaterializePanics,
     WorkerEnds, Panics, Flow, FlowTyped, FileTyped, Shape, StorageTyped, Durable, Alive
<1>2. CASE CompleteDoomed
  <2>1. /\ worker = "complete" /\ kernel = "synced" /\ fileLen' = fileLen + 1
        /\ durableEpochs' = durableEpochs + 1 /\ UNCHANGED <<file, disk>>
        /\ Returns(Notified(inflight), ClientsOf(Append(backlog, inflight)))
    BY <1>2 DEF CompleteDoomed
  <2>2. file[fileLen + 1] = Record(inflight) /\ inflight \in EpochBatch /\ ~Resting
    BY <2>1, RestingWorker DEF Shape, Writing, Flow, FlowTyped, WorkerTyped
  <2>3. file[fileLen + 1].whole
    BY <2>2, RecordFields
  <2>4. \A i \in 1..(fileLen + 1) : file[i].whole
    BY <1>1, <2>3
  <2>5. durableEpochs' = fileLen' /\ appliedEpochs <= fileLen' /\ fileLen' \in Nat
    BY <1>1, <2>1
  <2> QED BY <1>1, <2>1, <2>2, <2>4, <2>5, ReturnsShape
<1>3. CASE \/ SubmissionFails \/ RepairSync \/ RepairFails \/ MaterializePanics \/ WorkerEnds
  <2>1. /\ UNCHANGED <<file, fileLen, durableEpochs>> /\ disk' \in {disk, file}
        /\ \E receipts, failed : Returns(receipts, failed)
    BY <1>3 DEF SubmissionFails, RepairSync, RepairFails, MaterializePanics, WorkerEnds
  <2> QED BY <1>1, <2>1, ReturnsShape
<1> QED BY <1>2, <1>3

LEMMA KernelShape ==
    ASSUME Flow, Shape, Kernel
    PROVE  Shape'
<1> USE DEF storage, images, ingress, answers, callerVars, history
<1>1. /\ UNCHANGED <<image, diskImage, taken, caller, raced, worker, nextEpoch, inflight,
                     backlog, held, doomed, fileLen, durableEpochs, appliedEpochs, current>>
      /\ kernel # "none"
  BY DEF Kernel, KernelWritesPart, KernelWrites, KernelSyncs
<1>2. /\ inflight # NoEpoch /\ Receiving /\ Receiving' /\ Alive /\ Alive' /\ ~Resting'
      /\ worker' # "repairsync" /\ worker' \notin {"opensync", "replay"}
      /\ inflight \in EpochBatch /\ file \in Seq(JournalRecord)
      /\ fileLen \in Nat /\ fileLen <= Len(file) /\ inflight.id = fileLen + 1
      /\ appliedEpochs \in Nat /\ nextEpoch = fileLen + 2
  BY <1>1, RestingWorker DEF Flow, FlowTyped, WorkerTyped, FileTyped, Phases, Offset, Shape,
     StorageTyped, Writing, Receiving, Alive, Resting, Snapshotting
<1>3. StorageTyped'
  BY <1>1 DEF Shape, StorageTyped
<1>4. Unapplied' = Unapplied /\ Len(Unapplied) \in Nat
  BY <1>1, UnappliedFacts DEF Unapplied, Flow
<1>5. CASE KernelSyncs
  <2>1. kernel = "written" /\ kernel' = "synced" /\ file' = file /\ disk' = file
    BY <1>5 DEF KernelSyncs
  <2>2. Recoverable' /\ Durable' /\ Writing' /\ Aligned'
    BY <1>1, <1>2, <1>4, <2>1 DEF Shape, Recoverable, Durable, Writing, Aligned
  <2> QED BY <1>1, <1>2, <1>3, <2>2, ImagesKept DEF Shape
<1>6. ASSUME NEW w \in BOOLEAN, file' = AtOffset(inflight, w), disk' = disk,
             kernel' = IF w THEN "written" ELSE "part"
      PROVE  Shape'
  <2>1. /\ file' \in Seq(JournalRecord) /\ Len(file') = fileLen + 1
        /\ \A i \in 1..fileLen : file'[i] = file[i]
        /\ file'[fileLen + 1].id = inflight.id /\ file'[fileLen + 1].clients = inflight.clients
        /\ w = TRUE => file'[fileLen + 1] = Record(inflight)
    <3> DEFINE a == AtOffset(inflight, w)
    <3>1. /\ a \in Seq(JournalRecord) /\ Len(a) = fileLen + 1
          /\ \A i \in 1..fileLen : a[i] = file[i]
          /\ a[fileLen + 1].id = inflight.id /\ a[fileLen + 1].clients = inflight.clients
          /\ w = TRUE => a[fileLen + 1] = Record(inflight)
      BY <1>2, AtOffsetFacts
    <3>2. file' = a
      BY <1>6
    <3> HIDE DEF a
    <3> QED BY <3>1, <3>2
  <2>2. \A i \in 1..fileLen : file[i].whole /\ file[i].id = i
    BY <1>2 DEF Shape, Durable, Recoverable, Readable
  <2>3. Readable(file')
    BY <1>2, <2>1, <2>2 DEF Readable
  <2>4. Recoverable' /\ Durable'
    BY <1>1, <1>2, <1>6, <2>1, <2>2, <2>3 DEF Shape, Recoverable, Durable
  <2>5. kernel' = "written" => file'[fileLen + 1] = Record(inflight)
    BY <1>6, <2>1
  <2>6. kernel' # "synced"
    BY <1>6
  <2>7. Writing'
    BY <1>1, <1>2, <2>1, <2>5, <2>6 DEF Writing
  <2>8. Aligned'
    <3> SUFFICES ASSUME ~doomed
                 PROVE  /\ appliedEpochs + Len(Unapplied) = fileLen
                        /\ \A i \in 1..Len(Unapplied) :
                             file'[appliedEpochs + i] = Record(Unapplied[i])
      BY <1>1, <1>4 DEF Aligned
    <3>1. /\ appliedEpochs + Len(Unapplied) = fileLen
          /\ \A i \in 1..Len(Unapplied) : file[appliedEpochs + i] = Record(Unapplied[i])
      BY <1>2 DEF Shape, Aligned
    <3>2. \A i \in 1..Len(Unapplied) : appliedEpochs + i \in 1..fileLen
      BY <1>2, <1>4, <3>1
    <3> QED BY <2>1, <3>1, <3>2
  <2> QED BY <1>1, <1>2, <1>3, <2>4, <2>7, <2>8, ImagesKept DEF Shape
<1>7. CASE KernelWritesPart \/ KernelWrites
  <2>1. \E w \in BOOLEAN : /\ file' = AtOffset(inflight, w) /\ disk' = disk
                           /\ kernel' = IF w THEN "written" ELSE "part"
    BY <1>7 DEF KernelWritesPart, KernelWrites
  <2> QED BY <1>6, <2>1
<1> QED BY <1>5, <1>7 DEF Kernel

LEMMA WritebackShape ==
    ASSUME Flow, Shape, Writeback
    PROVE  Shape'
<1> USE DEF ingress, answers, callerVars, workerVars, history
<1>1. /\ UNCHANGED <<file, image, taken, caller, raced, worker, nextEpoch, inflight, backlog, held,
                     kernel, doomed, fileLen, durableEpochs, appliedEpochs, current>>
      /\ diskImage' \in {image, diskImage} /\ (disk' = disk \/ disk' \in Writebacks(disk, file))
  BY DEF Writeback
<1>2. Readable(disk') /\ (disk = file => disk' = file)
  BY <1>1, WritebackReadable DEF Flow, FlowTyped, FileTyped, Shape, Recoverable
<1>3. StorageTyped' /\ Recoverable' /\ Durable'
  BY <1>1, <1>2 DEF Shape, StorageTyped, Recoverable, Durable, Alive
<1>4. Unapplied' = Unapplied
  BY <1>1 DEF Unapplied
<1>5. Writing' /\ Aligned'
  BY <1>1, <1>2, <1>4 DEF Shape, Writing, Aligned, Receiving, Alive
<1>6. Images'
  BY <1>1 DEF Shape, Images, Snapshotting
<1> QED BY <1>3, <1>5, <1>6 DEF Shape

LEMMA CrashShape ==
    ASSUME Shape, ProcessExit \/ PowerLoss
    PROVE  Shape'
<1> USE DEF storage, images
<1>1. /\ worker' = "down" /\ kernel' = "none" /\ inflight' = NoEpoch /\ caller' = "idle"
      /\ taken' = NoImage /\ appliedEpochs' = 0 /\ current' = <<>>
      /\ file' \in {file, disk} /\ disk' = disk
      /\ image' \in {image, diskImage} /\ diskImage' = diskImage
  BY DEF ProcessExit, PowerLoss, Crash
<1>2. StorageTyped' /\ Recoverable' /\ Images'
  BY <1>1, EmptyFacts DEF Shape, StorageTyped, Recoverable, Images, Snapshotting
<1>3. Durable' /\ Writing' /\ Aligned'
  BY <1>1 DEF Durable, Writing, Aligned, Receiving, Alive
<1> QED BY <1>2, <1>3 DEF Shape

LEMMA NextShape ==
    ASSUME Flow, Flow', Shape, [Next]_vars, ~misled'
    PROVE  Shape'
<1>1. CASE UNCHANGED vars
  <2> USE <1>1 DEF vars, storage, images, ingress, answers, callerVars, workerVars, history
  <2>1. taken' \in ImageType
    BY DEF Shape, StorageTyped
  <2>2. Images'
    BY DEF Shape, Images, Snapshotting
  <2> QED BY <2>1, <2>2, TurnShape DEF Shape
<1>2. CASE Open
  BY <1>2, OpenShape
<1>3. CASE Users
  <2>1. ASSUME NEW c \in Clients, Submit(c)  PROVE Shape'
    <3>1. <<c>> \in Seq(Clients) /\ Send("Intent", <<c>>)
      BY <2>1 DEF Submit
    <3> QED BY <3>1, UsersShape
  <2>2. CASE SubmitEpoch
    BY <2>2, BulkTyped, UsersShape DEF SubmitEpoch
  <2>3. CASE Shutdown
    BY <2>3, UsersShape
  <2> QED BY <1>3, <2>1, <2>2, <2>3 DEF Users
<1>4. CASE Caller
  BY <1>4, UsersShape DEF Caller
<1>5. CASE Snapshot
  BY <1>5, SnapshotShape
<1>6. CASE Worker \/ Failure
  BY <1>6, UsersShape, AnswerBarrierShape, SubmitAdmissionShape, CompleteShape, RepairShape,
     PopDurableShape, MaterializeShape, StoppingShape DEF Worker, Failure
<1>7. CASE Kernel
  BY <1>7, KernelShape
<1>8. CASE Writeback
  BY <1>8, WritebackShape
<1>9. CASE ProcessExit \/ PowerLoss
  BY <1>9, CrashShape
<1> QED BY <1>1, <1>2, <1>3, <1>4, <1>5, <1>6, <1>7, <1>8, <1>9 DEF Next

-----------------------------------------------------------------------------
(* Order.  The order of the channel as a relation of a sequence a, and what  *)
(* is in line behind it: the journals f and g, the certified part s of one,  *)
(* the clients i being written, the batch b and the commands q.              *)

Before(a, c, d) == \E x, y \in DOMAIN a : x < y /\ a[x] = c /\ a[y] = d

Spaced(a, A, B) == \A c \in A, d \in B : Before(a, c, d)

Listed(a, s) == \A i, j \in DOMAIN s : i < j => Before(a, s[i], s[j])

InTurn(a, f) ==
    /\ \A i \in DOMAIN f : Listed(a, f[i].clients)
    /\ \A i, j \in DOMAIN f : i < j => Spaced(a, ToSet(f[i].clients), ToSet(f[j].clients))

Line(a, f, g, s, i, b, q) ==
    /\ ClientsOf(f) \cup ClientsOf(g) \cup (ToSet(i) \cup ToSet(b) \cup ClientsOf(q))
          \subseteq ToSet(a)
    /\ InTurn(a, f) /\ InTurn(a, g) /\ InTurn(a, q) /\ Listed(a, b) /\ Listed(a, i)
    /\ Spaced(a, ClientsOf(s), ToSet(i) \cup ToSet(b) \cup ClientsOf(q))
    /\ Spaced(a, ToSet(i), ToSet(b) \cup ClientsOf(q))
    /\ Spaced(a, ToSet(b), ClientsOf(q))

Tickets(a, cl) ==
    /\ a \in Seq(Clients)
    /\ \A x, y \in 1..Len(a) : a[x] = a[y] => x = y
    /\ \A c \in Clients : cl[c] = "ticket" <=> c \in ToSet(a)

LEMMA OrderedLine ==
    /\ Ordered <=> /\ Tickets(admitted, client)
                   /\ Line(admitted, file, disk, Settled, inflight.clients, batch, Commands)
    /\ Ordered' <=>
          /\ Tickets(admitted', client')
          /\ Line(admitted', file', disk', Settled', inflight'.clients, batch', Commands')
<1>1. Admitted /\ Sequenced <=>
          /\ Tickets(admitted, client)
          /\ Line(admitted, file, disk, Settled, inflight.clients, batch, Commands)
  BY DEF Admitted, Sequenced, Upcoming, Tickets, Line, InOrder, Chronological, Apart, Precedes,
     InTurn, Listed, Spaced, Before
<1>2. Admitted' /\ Sequenced' <=>
          /\ Tickets(admitted', client')
          /\ Line(admitted', file', disk', Settled', inflight'.clients, batch', Commands')
  BY DEF Admitted, Sequenced, Upcoming, Tickets, Line, InOrder, Chronological, Apart, Precedes,
     InTurn, Listed, Spaced, Before
<1> QED BY <1>1, <1>2 DEF Ordered

\* One journal is a cut of another.
Within(f2, f) ==
    /\ f2 \in Seq(JournalRecord) /\ f \in Seq(JournalRecord) /\ Len(f2) <= Len(f)
    /\ \A i \in 1..Len(f2) : f2[i].clients = f[i].clients

LEMMA WithinFacts ==
    ASSUME NEW a, NEW f, NEW f2, Within(f2, f)
    PROVE  /\ ClientsOf(f2) \subseteq ClientsOf(f)
           /\ InTurn(a, f) => InTurn(a, f2)
<1>1. /\ DOMAIN f = 1..Len(f) /\ DOMAIN f2 = 1..Len(f2) /\ Len(f) \in Nat /\ Len(f2) \in Nat
      /\ f2 \in Seq(JournalRecord) /\ f \in Seq(JournalRecord)
  BY LenProperties DEF Within
<1>2. \A i \in 1..Len(f2) : i \in 1..Len(f) /\ f2[i].clients = f[i].clients
  BY <1>1 DEF Within
<1>3. ClientsOf(f2) \subseteq ClientsOf(f)
  BY <1>1, <1>2, ClientsOfFacts
<1>4. InTurn(a, f) => InTurn(a, f2)
  BY <1>1, <1>2 DEF InTurn
<1> QED BY <1>3, <1>4

LEMMA InTurnEmpty ==
    ASSUME NEW a
    PROVE  InTurn(a, <<>>) /\ Listed(a, <<>>) /\ \A A : Spaced(a, A, {}) /\ Spaced(a, {}, A)
BY EmptySeq DEF InTurn, Listed, Spaced

\* The journals may be cut, replaced by each other, and everything else may go.
LEMMA LineCut ==
    ASSUME NEW a, NEW f, NEW g, NEW s, NEW i, NEW b, NEW q, Line(a, f, g, s, i, b, q),
           NEW f2, NEW g2, NEW s2,
           Within(f2, f) \/ Within(f2, g), Within(g2, f) \/ Within(g2, g),
           ClientsOf(s2) \subseteq ClientsOf(s)
    PROVE  Line(a, f2, g2, s2, i, b, q)
<1>1. /\ ClientsOf(f2) \subseteq ClientsOf(f) \cup ClientsOf(g) /\ InTurn(a, f2)
      /\ ClientsOf(g2) \subseteq ClientsOf(f) \cup ClientsOf(g) /\ InTurn(a, g2)
  BY WithinFacts DEF Line
<1>2. Spaced(a, ClientsOf(s2), ToSet(i) \cup ToSet(b) \cup ClientsOf(q))
  BY DEF Line, Spaced
<1> QED BY <1>1, <1>2 DEF Line

LEMMA LineGone ==
    ASSUME NEW a, NEW f, NEW g, NEW s, NEW i, NEW b, NEW q, Line(a, f, g, s, i, b, q), NEW s2
    PROVE  Line(a, f, g, s2, <<>>, <<>>, <<>>)
<1>1. ToSet(<<>>) = {} /\ ClientsOf(<<>>) = {} /\ {} \cup {} \cup {} = {} /\ {} \cup {} = {}
  BY ToSetEmpty, ClientsOfEmpty
<1>2. /\ InTurn(a, <<>>) /\ Listed(a, <<>>)
      /\ Spaced(a, ClientsOf(s2), {}) /\ Spaced(a, {}, {})
  BY InTurnEmpty
<1> QED BY <1>1, <1>2 DEF Line

LEMMA BeforeGrows ==
    ASSUME NEW a \in Seq(Clients), NEW x \in Seq(Clients)
    PROVE  /\ \A c, d : Before(a, c, d) => Before(a \o x, c, d)
           /\ \A c \in ToSet(a), d \in ToSet(x) : Before(a \o x, c, d)
           /\ Listed(a \o x, x)
<1> DEFINE h == a \o x
           n == Len(a)
           m == Len(x)
<1>1. /\ h \in Seq(Clients) /\ Len(h) = n + m /\ n \in Nat /\ m \in Nat
      /\ DOMAIN h = 1..(n + m) /\ DOMAIN a = 1..n /\ DOMAIN x = 1..m
      /\ \A k \in 1..n : h[k] = a[k]
      /\ \A k \in 1..m : h[n + k] = x[k]
  <2>1. h \in Seq(Clients) /\ Len(h) = n + m
        /\ \A k \in 1..(n + m) : h[k] = IF k <= n THEN a[k] ELSE x[k - n]
    BY ConcatProperties
  <2>2. n \in Nat /\ m \in Nat /\ DOMAIN h = 1..Len(h) /\ DOMAIN a = 1..n /\ DOMAIN x = 1..m
    BY <2>1, LenProperties
  <2> HIDE DEF h, n, m
  <2>3. \A k \in 1..n : k \in 1..(n + m) /\ k <= n
    BY <2>2
  <2>4. \A k \in 1..m : n + k \in 1..(n + m) /\ ~(n + k <= n) /\ (n + k) - n = k
    BY <2>2
  <2> QED BY <2>1, <2>2, <2>3, <2>4
<1>2. /\ \A c : c \in ToSet(a) <=> \E k \in 1..n : a[k] = c
      /\ \A c : c \in ToSet(x) <=> \E k \in 1..m : x[k] = c
  BY ToSetFacts
<1> HIDE DEF h, n, m
<1>3. ASSUME NEW c, NEW d, Before(a, c, d)  PROVE Before(h, c, d)
  <2>1. PICK k \in 1..n, l \in 1..n : k < l /\ a[k] = c /\ a[l] = d
    BY <1>1, <1>3 DEF Before
  <2>2. k \in DOMAIN h /\ l \in DOMAIN h /\ h[k] = c /\ h[l] = d
    BY <1>1, <2>1
  <2> QED BY <2>1, <2>2 DEF Before
<1>4. ASSUME NEW c \in ToSet(a), NEW d \in ToSet(x)  PROVE Before(h, c, d)
  <2>1. PICK k \in 1..n, l \in 1..m : a[k] = c /\ x[l] = d
    BY <1>2
  <2>2. k \in DOMAIN h /\ n + l \in DOMAIN h /\ k < n + l /\ h[k] = c /\ h[n + l] = d
    BY <1>1, <2>1
  <2> QED BY <2>1, <2>2 DEF Before
<1>5. Listed(h, x)
  <2> SUFFICES ASSUME NEW k \in 1..m, NEW l \in 1..m, k < l  PROVE Before(h, x[k], x[l])
    BY <1>1 DEF Listed
  <2>1. /\ n + k \in DOMAIN h /\ n + l \in DOMAIN h /\ n + k < n + l
        /\ h[n + k] = x[k] /\ h[n + l] = x[l]
    BY <1>1
  <2> QED BY <2>1 DEF Before
<1> QED BY <1>3, <1>4, <1>5 DEF h

\* A command is sent: its clients are the last of the channel's order.
LEMMA LineSent ==
    ASSUME NEW a \in Seq(Clients), NEW f, NEW g, NEW s, NEW i, NEW b,
           NEW q \in Seq(CommandType), NEW x \in CommandType,
           Line(a, f, g, s, i, b, q), ClientsOf(s) \subseteq ClientsOf(f)
    PROVE  Line(a \o x.clients, f, g, s, i, b, Append(q, x))
<1> DEFINE h == a \o x.clients
           r == Append(q, x)
           new == ToSet(x.clients)
<1>1. x.clients \in Seq(Clients)
  BY DEF CommandType
<1>2. /\ \A c, d : Before(a, c, d) => Before(h, c, d)
      /\ \A c \in ToSet(a), d \in new : Before(h, c, d)
      /\ Listed(h, x.clients) /\ ToSet(h) = ToSet(a) \cup new
  BY <1>1, BeforeGrows, ToSetConcat
<1>3. /\ ClientsOf(r) = ClientsOf(q) \cup new
      /\ DOMAIN r = 1..(Len(q) + 1) /\ DOMAIN q = 1..Len(q) /\ Len(q) \in Nat
      /\ \A k \in 1..Len(q) : r[k] = q[k]
      /\ r[Len(q) + 1] = x
  BY ClientsOfAppend, AppendFacts, LenProperties
<1>4. \A k \in 1..Len(q) : ToSet(q[k].clients) \subseteq ClientsOf(q)
  BY ClientsOfFacts
<1>5. /\ ClientsOf(f) \cup ClientsOf(g) \cup (ToSet(i) \cup ToSet(b) \cup ClientsOf(q))
           \subseteq ToSet(a)
      /\ InTurn(a, f) /\ InTurn(a, g) /\ InTurn(a, q) /\ Listed(a, b) /\ Listed(a, i)
      /\ Spaced(a, ClientsOf(s), ToSet(i) \cup ToSet(b) \cup ClientsOf(q))
      /\ Spaced(a, ToSet(i), ToSet(b) \cup ClientsOf(q))
      /\ Spaced(a, ToSet(b), ClientsOf(q))
  BY DEF Line
<1> HIDE DEF h, r, new
<1>6. InTurn(h, f) /\ InTurn(h, g) /\ Listed(h, b) /\ Listed(h, i)
  BY <1>2, <1>5 DEF InTurn, Listed, Spaced
<1>7. InTurn(h, r)
  <2>1. \A k \in 1..(Len(q) + 1) : k \in 1..Len(q) \/ k = Len(q) + 1
    BY <1>3
  <2>2. \A k \in 1..Len(q) : Listed(h, q[k].clients)
    BY <1>2, <1>3, <1>5 DEF InTurn, Listed
  <2>3. \A k, l \in 1..Len(q) : k < l => Spaced(h, ToSet(q[k].clients), ToSet(q[l].clients))
    BY <1>2, <1>3, <1>5 DEF InTurn, Spaced
  <2>4. \A k \in 1..Len(q) : Spaced(h, ToSet(q[k].clients), new)
    BY <1>2, <1>4, <1>5 DEF Spaced
  <2>5. \A k \in DOMAIN r : Listed(h, r[k].clients)
    BY <1>2, <1>3, <2>1, <2>2
  <2>6. ASSUME NEW k \in DOMAIN r, NEW l \in DOMAIN r, k < l
        PROVE  Spaced(h, ToSet(r[k].clients), ToSet(r[l].clients))
    <3>1. k \in 1..Len(q) /\ (l \in 1..Len(q) \/ l = Len(q) + 1)
      BY <1>3, <2>6
    <3>2. ToSet(r[Len(q) + 1].clients) = new
      BY <1>3 DEF new
    <3> QED BY <1>3, <2>3, <2>4, <2>6, <3>1, <3>2
  <2> QED BY <2>5, <2>6 DEF InTurn
<1>8. ClientsOf(s) \subseteq ToSet(a)
  BY <1>5
<1>9. /\ Spaced(h, ClientsOf(s), ToSet(i) \cup ToSet(b) \cup ClientsOf(r))
      /\ Spaced(h, ToSet(i), ToSet(b) \cup ClientsOf(r))
      /\ Spaced(h, ToSet(b), ClientsOf(r))
  BY <1>2, <1>3, <1>5, <1>8 DEF Spaced
<1>10. ClientsOf(f) \cup ClientsOf(g) \cup (ToSet(i) \cup ToSet(b) \cup ClientsOf(r))
           \subseteq ToSet(h)
  BY <1>2, <1>3, <1>5
<1> QED BY <1>6, <1>7, <1>9, <1>10 DEF Line, h, r

\* The worker takes the command that is next, into the batch.
LEMMA LineTaken ==
    ASSUME NEW a, NEW f, NEW g, NEW s, NEW i, NEW b \in Seq(Clients),
           NEW q \in Seq(CommandType), q # <<>>, Line(a, f, g, s, i, b, q)
    PROVE  Line(a, f, g, s, i, b \o Head(q).clients, Tail(q))
<1> DEFINE x == Head(q).clients
           h == b \o x
           r == Tail(q)
<1>1. /\ Len(q) \in Nat /\ Len(q) > 0 /\ Head(q) = q[1] /\ q[1] \in CommandType
      /\ DOMAIN q = 1..Len(q) /\ DOMAIN r = 1..Len(r) /\ Len(r) \in Nat
      /\ r \in Seq(CommandType)
      /\ \A k \in 1..Len(r) : k + 1 \in 1..Len(q) /\ r[k] = q[k + 1]
  BY HeadTailFacts, LenProperties
<1>2. x \in Seq(Clients) /\ ToSet(h) = ToSet(b) \cup ToSet(x) /\ h \in Seq(Clients)
  BY <1>1, ToSetConcat, ConcatProperties DEF CommandType
<1>3. ClientsOf(q) = ToSet(x) \cup ClientsOf(r)
  BY <1>1, ClientsOfHeadTail
<1>4. /\ ClientsOf(f) \cup ClientsOf(g) \cup (ToSet(i) \cup ToSet(b) \cup ClientsOf(q))
           \subseteq ToSet(a)
      /\ InTurn(a, f) /\ InTurn(a, g) /\ InTurn(a, q) /\ Listed(a, b) /\ Listed(a, i)
      /\ Spaced(a, ClientsOf(s), ToSet(i) \cup ToSet(b) \cup ClientsOf(q))
      /\ Spaced(a, ToSet(i), ToSet(b) \cup ClientsOf(q))
      /\ Spaced(a, ToSet(b), ClientsOf(q))
  BY DEF Line
<1>5. /\ DOMAIN h = 1..(Len(b) + Len(x)) /\ DOMAIN b = 1..Len(b) /\ DOMAIN x = 1..Len(x)
      /\ Len(b) \in Nat /\ Len(x) \in Nat
      /\ \A k \in 1..(Len(b) + Len(x)) : h[k] = IF k <= Len(b) THEN b[k] ELSE x[k - Len(b)]
  BY <1>2, ConcatProperties, LenProperties
<1>6. /\ \A k \in 1..Len(b) : b[k] \in ToSet(b)
      /\ \A k \in 1..Len(x) : x[k] \in ToSet(x)
  BY <1>2, ToSetFacts
<1>7. x = q[1].clients /\ \A k \in 1..Len(r) : ToSet(r[k].clients) \subseteq ClientsOf(r)
  BY <1>1, ClientsOfFacts
<1> HIDE DEF x, h, r
<1>8. Listed(a, h)
  <2>1. Listed(a, x)
    BY <1>1, <1>4, <1>7 DEF InTurn
  <2> SUFFICES ASSUME NEW k \in DOMAIN h, NEW l \in DOMAIN h, k < l
               PROVE  Before(a, h[k], h[l])
    BY DEF Listed
  <2>2. CASE l <= Len(b)
    <3>1. k \in 1..Len(b) /\ l \in 1..Len(b) /\ h[k] = b[k] /\ h[l] = b[l]
      BY <1>5, <2>2
    <3> QED BY <1>4, <1>5, <3>1 DEF Listed
  <2>3. CASE ~(l <= Len(b)) /\ k <= Len(b)
    <3>1. k \in 1..Len(b) /\ l - Len(b) \in 1..Len(x) /\ h[k] = b[k] /\ h[l] = x[l - Len(b)]
      BY <1>5, <2>3
    <3>2. h[k] \in ToSet(b) /\ h[l] \in ClientsOf(q)
      BY <1>3, <1>6, <3>1
    <3> QED BY <1>4, <3>2 DEF Spaced
  <2>4. CASE ~(l <= Len(b)) /\ ~(k <= Len(b))
    <3>1. /\ k - Len(b) \in 1..Len(x) /\ l - Len(b) \in 1..Len(x)
          /\ k - Len(b) < l - Len(b) /\ h[k] = x[k - Len(b)] /\ h[l] = x[l - Len(b)]
      BY <1>5, <2>4
    <3> QED BY <1>5, <2>1, <3>1 DEF Listed
  <2> QED BY <2>2, <2>3, <2>4
<1>9. InTurn(a, r)
  <2>1. \A k, l \in 1..Len(r) : k < l => k + 1 < l + 1
    BY <1>1
  <2> QED BY <1>1, <1>4, <2>1 DEF InTurn
<1>10. Spaced(a, ToSet(x), ClientsOf(r))
  <2> SUFFICES ASSUME NEW c \in ToSet(x), NEW d \in ClientsOf(r)  PROVE Before(a, c, d)
    BY DEF Spaced
  <2>1. PICK k \in 1..Len(r) : d \in ToSet(r[k].clients)
    BY <1>1, ClientsOfFacts
  <2>2. 1 \in DOMAIN q /\ k + 1 \in DOMAIN q /\ 1 < k + 1
    BY <1>1, <2>1
  <2>3. Spaced(a, ToSet(q[1].clients), ToSet(q[k + 1].clients))
    BY <1>4, <2>2 DEF InTurn
  <2> QED BY <1>1, <1>7, <2>1, <2>3 DEF Spaced
<1>11. /\ Spaced(a, ClientsOf(s), ToSet(i) \cup ToSet(h) \cup ClientsOf(r))
       /\ Spaced(a, ToSet(i), ToSet(h) \cup ClientsOf(r))
       /\ Spaced(a, ToSet(h), ClientsOf(r))
  BY <1>2, <1>3, <1>4, <1>10 DEF Spaced
<1> QED BY <1>2, <1>3, <1>4, <1>8, <1>9, <1>11 DEF Line, h, r, x

\* The batch is submitted.
LEMMA LineSubmitted ==
    ASSUME NEW a, NEW f, NEW g, NEW s, NEW b, NEW q, Line(a, f, g, s, <<>>, b, q)
    PROVE  Line(a, f, g, s, b, <<>>, q)
<1>1. ToSet(<<>>) = {} /\ Listed(a, <<>>)
  BY ToSetEmpty, InTurnEmpty
<1> QED BY <1>1 DEF Line, Spaced

\* Its record reaches the journal behind the certified part.
LEMMA LineWritten ==
    ASSUME NEW a, NEW f \in Seq(JournalRecord), NEW g, NEW s, NEW i, NEW b, NEW q,
           Line(a, f, g, s, i, b, q),
           NEW n \in Nat, n <= Len(f), NEW f2 \in Seq(JournalRecord), Len(f2) = n + 1,
           \A k \in 1..n : f2[k] = f[k] /\ ToSet(f[k].clients) \subseteq ClientsOf(s),
           f2[n + 1].clients = i
    PROVE  Line(a, f2, g, s, i, b, q)
<1>1. DOMAIN f = 1..Len(f) /\ DOMAIN f2 = 1..(n + 1) /\ Len(f) \in Nat
  BY LenProperties
<1>2. /\ \A k \in 1..(n + 1) : k \in 1..n \/ k = n + 1
      /\ \A k \in 1..n : k \in 1..Len(f)
  BY <1>1
<1>3. ClientsOf(f2) \subseteq ClientsOf(f) \cup ToSet(i)
  BY <1>2, ClientsOfFacts
<1>4. \A k \in DOMAIN f2 : Listed(a, f2[k].clients)
  BY <1>1, <1>2 DEF Line, InTurn
<1>5. ASSUME NEW k \in DOMAIN f2, NEW l \in DOMAIN f2, k < l
      PROVE  Spaced(a, ToSet(f2[k].clients), ToSet(f2[l].clients))
  <2>1. k \in 1..n /\ (l \in 1..n \/ l = n + 1)
    BY <1>1, <1>5
  <2>2. CASE l \in 1..n
    BY <1>1, <1>2, <1>5, <2>1, <2>2 DEF Line, InTurn
  <2>3. CASE l = n + 1
    BY <1>2, <2>1, <2>3 DEF Line, Spaced
  <2> QED BY <2>1, <2>2, <2>3
<1>6. InTurn(a, f2)
  BY <1>4, <1>5 DEF InTurn
<1> QED BY <1>3, <1>6 DEF Line

\* The write is certified.
LEMMA LineSettled ==
    ASSUME NEW a, NEW f, NEW g, NEW s, NEW i, NEW b, NEW q, Line(a, f, g, s, i, b, q),
           NEW s2, ClientsOf(s2) \subseteq ClientsOf(s) \cup ToSet(i)
    PROVE  Line(a, f, g, s2, <<>>, b, q)
<1>1. ToSet(<<>>) = {} /\ Listed(a, <<>>)
  BY ToSetEmpty, InTurnEmpty
<1> QED BY <1>1 DEF Line, Spaced

LEMMA SettledFacts ==
    ASSUME NEW f \in Seq(JournalRecord), NEW n \in Nat, n <= Len(f)
    PROVE  /\ \A c : c \in ClientsOf(SubSeq(f, 1, n))
                        <=> \E k \in 1..n : c \in ToSet(f[k].clients)
           /\ ClientsOf(SubSeq(f, 1, n)) \subseteq ClientsOf(f)
<1> DEFINE s == SubSeq(f, 1, n)
<1>1. s \in Seq(JournalRecord) /\ Len(s) = n /\ \A k \in 1..n : s[k] = f[k]
  BY PrefixFacts
<1>2. Len(f) \in Nat
  BY LenProperties
<1> HIDE DEF s
<1>3. \A c : c \in ClientsOf(s) <=> \E k \in 1..n : c \in ToSet(f[k].clients)
  BY <1>1, ClientsOfFacts
<1>4. \A k \in 1..n : k \in 1..Len(f)
  BY <1>2
<1>5. ClientsOf(s) \subseteq ClientsOf(f)
  BY <1>3, <1>4, ClientsOfFacts
<1> QED BY <1>3, <1>5 DEF s

-----------------------------------------------------------------------------

LEMMA InitOrdered == Init => Ordered
<1> SUFFICES ASSUME Init  PROVE Ordered
  OBVIOUS
<1>1. /\ admitted = <<>> /\ file = <<>> /\ disk = <<>> /\ inflight.clients = <<>>
      /\ batch = <<>> /\ Commands = <<>> /\ \A c \in Clients : client[c] = "ready"
  BY DEF Init, NoEpoch, Commands
<1>2. ToSet(<<>>) = {} /\ ClientsOf(<<>>) = {} /\ {} \cup {} = {}
  BY ToSetEmpty, ClientsOfEmpty
<1>3. Tickets(<<>>, client)
  <2>1. <<>> \in Seq(Clients) /\ Len(<<>>) = 0
    OBVIOUS
  <2> QED BY <1>1, <1>2, <2>1 DEF Tickets
<1>4. Line(<<>>, <<>>, <<>>, Settled, <<>>, <<>>, <<>>)
  <2>1. /\ InTurn(<<>>, <<>>) /\ Listed(<<>>, <<>>) /\ Spaced(<<>>, {}, {})
        /\ Spaced(<<>>, ClientsOf(Settled), {})
    BY InTurnEmpty
  <2> QED BY <1>2, <2>1 DEF Line
<1> QED BY <1>1, <1>3, <1>4, OrderedLine

\* Nothing in line moves.
LEMMA OrderedSame ==
    ASSUME Ordered, UNCHANGED <<admitted, client, file, disk, fileLen, inflight, batch>>,
           Commands' = Commands
    PROVE  Ordered'
<1>1. Settled' = Settled
  BY DEF Settled
<1> QED BY <1>1, OrderedLine

\* Everything the worker had is gone.
LEMMA OrderedGone ==
    ASSUME Ordered, UNCHANGED <<admitted, client>>,
           batch' = <<>>, inflight' = NoEpoch, Commands' = <<>>,
           Within(file', file) \/ Within(file', disk), Within(disk', file) \/ Within(disk', disk)
    PROVE  Ordered'
<1>1. Line(admitted, file, disk, Settled, inflight.clients, batch, Commands)
  BY OrderedLine
<1>2. Line(admitted, file', disk', Settled, inflight.clients, batch, Commands)
  BY <1>1, LineCut
<1>3. Line(admitted, file', disk', Settled', <<>>, <<>>, <<>>)
  BY <1>2, LineGone
<1>4. inflight'.clients = <<>>
  BY DEF NoEpoch
<1> QED BY <1>3, <1>4, OrderedLine

\* The storage moves, what is in line does not.
LEMMA OrderedStored ==
    ASSUME Ordered, UNCHANGED <<admitted, client, inflight, batch>>, Commands' = Commands,
           Within(file', file) \/ Within(file', disk), Within(disk', file) \/ Within(disk', disk),
           ClientsOf(Settled') \subseteq ClientsOf(Settled)
    PROVE  Ordered'
<1>1. Line(admitted, file, disk, Settled, inflight.clients, batch, Commands)
  BY OrderedLine
<1>2. Line(admitted, file', disk', Settled', inflight.clients, batch, Commands)
  BY <1>1, LineCut
<1> QED BY <1>2, OrderedLine

LEMMA WithinSame ==
    ASSUME NEW f \in Seq(JournalRecord)
    PROVE  Within(f, f)
BY LenProperties DEF Within

LEMMA OpenOrdered ==
    ASSUME Flow, Flow', Shape, Ordered, Open
    PROVE  Ordered'
<1> USE DEF storage, images, ingress, answers, callerVars, workerVars, history
<1>1. file \in Seq(JournalRecord) /\ disk \in Seq(JournalRecord)
  BY DEF Flow, FlowTyped, FileTyped
<1>2. ~Receiving
  BY DEF Open, OpenFromImage, OpenClean, OpenTruncate, OpenSync, Replay, Receiving, Alive
<1>3. batch = <<>> /\ inflight = NoEpoch /\ Commands = <<>>
  BY <1>2 DEF Flow, Phases, Receiving, Alive
<1>4. UNCHANGED <<admitted, client>>
  BY DEF Open, OpenFromImage, OpenClean, OpenTruncate, OpenSync, Replay, Started
<1>5. batch' = <<>> /\ inflight' = NoEpoch /\ Commands' = <<>>
  <2>1. CASE OpenFromImage \/ Replay
    BY <2>1, CommandsGone DEF OpenFromImage, Replay, Started
  <2>2. CASE OpenClean \/ OpenTruncate \/ OpenSync
    BY <1>3, <2>2, CommandsSame DEF OpenClean, OpenTruncate, OpenSync
  <2> QED BY <2>1, <2>2 DEF Open
<1>6. /\ file' = file \/ file' = GoodPrefix(file)
      /\ disk' = disk \/ disk' = file
  BY TruncateFacts DEF Open, OpenFromImage, OpenClean, OpenTruncate, OpenSync, Replay
<1>7. Within(file, file) /\ Within(disk, disk) /\ Within(GoodPrefix(file), file)
  BY <1>1, WithinSame, GoodPrefixFacts DEF Within
<1>8. Within(file', file) /\ (Within(disk', file) \/ Within(disk', disk))
  BY <1>6, <1>7
<1> QED BY <1>4, <1>5, <1>8, OrderedGone

LEMMA SendOrdered ==
    ASSUME Flow, Flow', Ordered, NEW kind \in {"Intent", "Epoch"}, NEW clients \in Seq(Clients),
           \A x, y \in 1..Len(clients) : clients[x] = clients[y] => x = y,
           Send(kind, clients)
    PROVE  Ordered'
<1> USE DEF storage, images, ingress, answers, callerVars, workerVars, history
<1> DEFINE x == [kind |-> kind, clients |-> clients]
<1>1. /\ x \in CommandType /\ x.clients = clients
      /\ UNCHANGED <<file, disk, fileLen, inflight, batch, pending>>
      /\ queue' = Append(queue, x) /\ admitted' = admitted \o clients /\ Receiving
  BY DEF Send, CommandType
<1>2. /\ \A k \in 1..Len(clients) : client[clients[k]] = "ready"
      /\ \A c \in Clients : client'[c] = IF c \in ToSet(clients) THEN "ticket" ELSE client[c]
  BY LenProperties DEF Send
<1>3. /\ pending \in Seq(CommandType) /\ queue \in Seq(CommandType)
      /\ file \in Seq(JournalRecord) /\ fileLen \in Nat /\ fileLen <= Len(file)
  BY <1>1 DEF Flow, FlowTyped, ChannelTyped, FileTyped, Offset, Receiving
<1> HIDE DEF x
<1>4. Commands' = Append(Commands, x) /\ Commands \in Seq(CommandType)
  BY <1>1, <1>3, CommandsSent, CommandsTyped
<1>5. /\ Tickets(admitted, client)
      /\ Line(admitted, file, disk, Settled, inflight.clients, batch, Commands)
  BY OrderedLine
<1>6. ClientsOf(Settled) \subseteq ClientsOf(file) /\ Settled' = Settled
  BY <1>1, <1>3, SettledFacts DEF Settled
<1>7. admitted \in Seq(Clients)
  BY <1>5 DEF Tickets
<1>8. Line(admitted', file', disk', Settled', inflight'.clients, batch', Commands')
  BY <1>1, <1>4, <1>5, <1>6, <1>7, LineSent
<1>9. Tickets(admitted', client')
  <2> DEFINE n == Len(admitted)
             m == Len(clients)
  <2>1. /\ admitted' \in Seq(Clients) /\ Len(admitted') = n + m /\ n \in Nat /\ m \in Nat
        /\ \A k \in 1..(n + m) :
              admitted'[k] = IF k <= n THEN admitted[k] ELSE clients[k - n]
        /\ ToSet(admitted') = ToSet(admitted) \cup ToSet(clients)
    BY <1>1, <1>7, ConcatProperties, LenProperties, ToSetConcat
  <2>2. /\ \A k \in 1..n : admitted[k] \in Clients /\ client[admitted[k]] = "ticket"
        /\ \A k, l \in 1..n : admitted[k] = admitted[l] => k = l
        /\ \A c \in Clients : client[c] = "ticket" <=> c \in ToSet(admitted)
    <3>1. \A k \in 1..n : admitted[k] \in Clients /\ admitted[k] \in ToSet(admitted)
      BY <1>7, ToSetFacts, ElementOfSeq
    <3> QED BY <1>5, <3>1 DEF Tickets
  <2>3. \A k \in 1..n, l \in 1..m : admitted[k] # clients[l]
    <3>1. "ready" # "ticket"
      OBVIOUS
    <3> QED BY <1>2, <2>2, <3>1
  <2> HIDE DEF n, m
  <2>4. ASSUME NEW k \in 1..(n + m), NEW l \in 1..(n + m), admitted'[k] = admitted'[l]
        PROVE  k = l
    <3>1. CASE k <= n /\ l <= n
      <4>1. k \in 1..n /\ l \in 1..n
        BY <2>1, <3>1
      <4> QED BY <2>1, <2>2, <2>4, <3>1, <4>1
    <3>2. CASE ~(k <= n) /\ ~(l <= n)
      <4>1. k - n \in 1..m /\ l - n \in 1..m
        BY <2>1, <3>2
      <4>2. clients[k - n] = clients[l - n]
        BY <2>1, <2>4, <3>2
      <4>3. k - n = l - n
        BY <4>1, <4>2 DEF m
      <4> QED BY <2>1, <4>3
    <3>3. CASE k <= n /\ ~(l <= n)
      <4>1. k \in 1..n /\ l - n \in 1..m
        BY <2>1, <3>3
      <4> QED BY <2>1, <2>3, <2>4, <3>3, <4>1
    <3>4. CASE ~(k <= n) /\ l <= n
      <4>1. l \in 1..n /\ k - n \in 1..m
        BY <2>1, <3>4
      <4> QED BY <2>1, <2>3, <2>4, <3>4, <4>1
    <3> QED BY <3>1, <3>2, <3>3, <3>4
  <2>5. \A c \in Clients : client'[c] = "ticket" <=> c \in ToSet(admitted')
    BY <1>2, <2>1, <2>2
  <2> QED BY <2>1, <2>4, <2>5 DEF Tickets
<1> QED BY <1>8, <1>9, OrderedLine

LEMMA UsersOrdered ==
    ASSUME Flow, Flow', Ordered, Users \/ Caller \/ Snapshot
    PROVE  Ordered'
<1> USE DEF storage, images, ingress, answers, callerVars, workerVars, history
<1>1. ASSUME NEW c \in Clients, Submit(c)  PROVE Ordered'
  <2>1. /\ <<c>> \in Seq(Clients) /\ Send("Intent", <<c>>)
        /\ \A x, y \in 1..Len(<<c>>) : <<c>>[x] = <<c>>[y] => x = y
    BY <1>1 DEF Submit
  <2> QED BY <2>1, SendOrdered
<1>2. CASE SubmitEpoch
  <2>1. \A x, y \in 1..Len(Bulk) : Bulk[x] = Bulk[y] => x = y
    BY AdmissionAssumption, LenProperties DEF IsInjective
  <2> QED BY <1>2, <2>1, BulkTyped, SendOrdered DEF SubmitEpoch
<1>3. CASE FlushSend
  <2> DEFINE x == [kind |-> "Barrier", clients |-> <<>>]
  <2>1. /\ x \in CommandType /\ x.clients = <<>> /\ Receiving
        /\ UNCHANGED <<admitted, client, file, disk, fileLen, inflight, batch, pending>>
        /\ queue' = Append(queue, x)
    BY <1>3 DEF FlushSend, CommandType
  <2>2. /\ pending \in Seq(CommandType) /\ queue \in Seq(CommandType)
        /\ file \in Seq(JournalRecord) /\ fileLen \in Nat /\ fileLen <= Len(file)
    BY <2>1 DEF Flow, FlowTyped, ChannelTyped, FileTyped, Offset, Receiving
  <2> HIDE DEF x
  <2>3. Commands' = Append(Commands, x) /\ Commands \in Seq(CommandType)
    BY <2>1, <2>2, CommandsSent, CommandsTyped
  <2>4. /\ Tickets(admitted, client)
        /\ Line(admitted, file, disk, Settled, inflight.clients, batch, Commands)
    BY OrderedLine
  <2>5. ClientsOf(Settled) \subseteq ClientsOf(file) /\ Settled' = Settled
    BY <2>1, <2>2, SettledFacts DEF Settled
  <2>6. admitted \in Seq(Clients) /\ admitted \o x.clients = admitted
    BY <2>1, <2>4, ConcatEmptySeq DEF Tickets
  <2>7. Line(admitted', file', disk', Settled', inflight'.clients, batch', Commands')
    BY <2>1, <2>3, <2>4, <2>5, <2>6, LineSent
  <2> QED BY <2>1, <2>4, <2>7, OrderedLine
<1>4. CASE Shutdown \/ FlushLock \/ FlushReturns \/ FlushStopped \/ Snapshot
  <2>1. UNCHANGED <<admitted, client, file, disk, fileLen, inflight, batch, pending, queue>>
    BY <1>4 DEF Shutdown, FlushLock, FlushReturns, FlushStopped, Snapshot, CallEnds,
       SnapshotWorld, SnapshotJournal, SnapshotRename, SnapshotSync
  <2> QED BY <2>1, CommandsSame, OrderedSame
<1> QED BY <1>1, <1>2, <1>3, <1>4 DEF Users, Caller

LEMMA ClaimOrdered ==
    ASSUME Flow, Flow', Ordered, TakeCommand \/ Claim
    PROVE  Ordered'
<1> USE DEF storage, images, ingress, answers, callerVars, workerVars, history
<1>1. /\ pending \in Seq(CommandType) /\ queue \in Seq(CommandType) /\ batch \in Seq(Clients)
      /\ Commands \in Seq(CommandType)
  BY CommandsTyped DEF Flow, FlowTyped, ChannelTyped, WorkerTyped
<1>2. UNCHANGED <<admitted, client, file, disk, fileLen, inflight>>
  BY DEF TakeCommand, Claim
<1>3. Commands # <<>> /\ Commands' = Tail(Commands) /\ batch' = batch \o Head(Commands).clients
  <2>1. CASE TakeCommand
    <3>1. Commands # <<>> /\ batch' = Head(Commands).clients
      BY <2>1 DEF TakeCommand, Commands, Command
    <3>2. batch = <<>>
      BY <2>1 DEF TakeCommand, Seeking, Flow, Phases
    <3>3. Commands' = Tail(Commands) /\ Head(Commands) \in CommandType
      BY <1>1, <2>1, <3>1, CommandsTaken DEF TakeCommand
    <3>4. Head(Commands).clients \in Seq(Clients)
      BY <3>3 DEF CommandType
    <3> QED BY <3>1, <3>2, <3>3, <3>4, ConcatEmptySeq
  <2>2. CASE Claim
    <3>1. pending = <<>> /\ pending' = pending /\ queue # <<>> /\ queue' = Tail(queue)
          /\ batch' = batch \o Head(queue).clients
      BY <2>2 DEF Claim, Flow, Barriers
    <3> QED BY <1>1, <3>1, CommandsClaimed
  <2> QED BY <2>1, <2>2
<1>4. /\ Tickets(admitted, client)
      /\ Line(admitted, file, disk, Settled, inflight.clients, batch, Commands)
  BY OrderedLine
<1>5. Line(admitted, file, disk, Settled, inflight.clients, batch', Commands')
  BY <1>1, <1>3, <1>4, LineTaken
<1>6. Settled' = Settled
  BY <1>2 DEF Settled
<1> QED BY <1>2, <1>4, <1>5, <1>6, OrderedLine

\* The worker's steps that leave the line as it is.
LEMMA TurnsOrdered ==
    ASSUME Flow, Flow', Ordered,
           \/ NoCommand \/ ClaimSetsAside \/ ClaimEnds \/ CompleteFails \/ PopDurable
           \/ Materialize \/ MaterializePanicsFirst \/ AnswerBarrier
    PROVE  Ordered'
<1> USE DEF storage, images, ingress, answers, callerVars, workerVars, history
<1>1. UNCHANGED <<admitted, client, file, disk, fileLen, inflight, batch>>
  BY DEF NoCommand, ClaimSetsAside, ClaimEnds, CompleteFails, PopDurable, Materialize,
     MaterializePanicsFirst, AnswerBarrier
<1>2. CASE ClaimSetsAside
  <2>1. pending = <<>> /\ queue \in Seq(CommandType)
    BY <1>2 DEF ClaimSetsAside, Flow, Barriers, FlowTyped, ChannelTyped
  <2> QED BY <1>1, <1>2, <2>1, CommandsSetAside, OrderedSame DEF ClaimSetsAside
<1>3. CASE ~ClaimSetsAside
  <2>1. UNCHANGED <<pending, queue>>
    BY <1>3 DEF NoCommand, ClaimEnds, CompleteFails, PopDurable, Materialize,
       MaterializePanicsFirst, AnswerBarrier
  <2> QED BY <1>1, <2>1, CommandsSame, OrderedSame
<1> QED BY <1>2, <1>3

LEMMA SubmitAdmissionOrdered ==
    ASSUME Flow, Ordered, SubmitAdmission
    PROVE  Ordered'
<1> USE DEF storage, images, ingress, answers, callerVars, workerVars, history
<1>1. UNCHANGED <<admitted, client, file, disk, fileLen, pending, queue>>
      /\ inflight'.clients = batch /\ batch' = <<>>
  BY DEF SubmitAdmission
<1>2. inflight.clients = <<>>
  BY DEF SubmitAdmission, Flow, Phases, NoEpoch
<1>3. /\ Tickets(admitted, client)
      /\ Line(admitted, file, disk, Settled, <<>>, batch, Commands)
  BY <1>2, OrderedLine
<1>4. Line(admitted, file, disk, Settled, batch, <<>>, Commands)
  BY <1>3, LineSubmitted
<1>5. Settled' = Settled /\ Commands' = Commands
  BY <1>1, CommandsSame DEF Settled
<1> QED BY <1>1, <1>3, <1>4, <1>5, OrderedLine

LEMMA CompleteOrdered ==
    ASSUME Flow, Flow', Shape, Ordered, Complete
    PROVE  Ordered'
<1> USE DEF storage, images, ingress, answers, callerVars, workerVars, history
<1>1. UNCHANGED <<admitted, client, file, disk, pending, queue, batch>>
      /\ inflight'.clients = <<>> /\ fileLen' = fileLen + 1
  BY DEF Complete, NoEpoch
<1>2. /\ file \in Seq(JournalRecord) /\ fileLen \in Nat /\ fileLen + 1 <= Len(file)
      /\ fileLen <= Len(file) /\ inflight \in EpochBatch
      /\ file[fileLen + 1] = Record(inflight)
  BY DEF Complete, Flow, FlowTyped, FileTyped, WorkerTyped, Offset, Shape, Writing, Alive
<1>3. file[fileLen + 1].clients = inflight.clients
  BY <1>2, RecordFields
<1>4. ClientsOf(Settled') \subseteq ClientsOf(Settled) \cup ToSet(inflight.clients)
  <2>1. \A c : c \in ClientsOf(Settled) <=> \E k \in 1..fileLen : c \in ToSet(file[k].clients)
    BY <1>2, SettledFacts DEF Settled
  <2>2. fileLen + 1 \in Nat /\ \A k \in 1..(fileLen + 1) : k \in 1..fileLen \/ k = fileLen + 1
    BY <1>2
  <2>3. Settled' = SubSeq(file, 1, fileLen + 1)
    BY <1>1 DEF Settled
  <2>4. \A c : c \in ClientsOf(Settled')
                  <=> \E k \in 1..(fileLen + 1) : c \in ToSet(file[k].clients)
    BY <1>2, <2>2, <2>3, SettledFacts
  <2> QED BY <1>3, <2>1, <2>2, <2>4
<1>5. /\ Tickets(admitted, client)
      /\ Line(admitted, file, disk, Settled, inflight.clients, batch, Commands)
  BY OrderedLine
<1>6. Line(admitted, file, disk, Settled', <<>>, batch, Commands)
  BY <1>4, <1>5, LineSettled
<1>7. Commands' = Commands
  BY <1>1, CommandsSame
<1> QED BY <1>1, <1>5, <1>6, <1>7, OrderedLine

LEMMA RepairTruncateOrdered ==
    ASSUME Flow, Flow', Ordered, RepairTruncate
    PROVE  Ordered'
<1> USE DEF storage, images, ingress, answers, callerVars, workerVars, history
<1>1. UNCHANGED <<admitted, client, disk, fileLen, inflight, batch, pending, queue>>
      /\ file' = SubSeq(file, 1, fileLen)
  BY DEF RepairTruncate
<1>2. /\ file \in Seq(JournalRecord) /\ disk \in Seq(JournalRecord)
      /\ fileLen \in Nat /\ fileLen <= Len(file)
  BY DEF RepairTruncate, Flow, FlowTyped, FileTyped, Offset, Alive
<1>3. /\ file' \in Seq(JournalRecord) /\ Len(file') = fileLen
      /\ \A k \in 1..fileLen : file'[k] = file[k]
  BY <1>1, <1>2, PrefixFacts
<1>4. Within(file', file) /\ Within(disk', disk)
  BY <1>1, <1>2, <1>3, WithinSame DEF Within
<1>5. ClientsOf(Settled') \subseteq ClientsOf(Settled)
  <2>1. fileLen <= Len(file')
    BY <1>2, <1>3
  <2>2. \A c : c \in ClientsOf(Settled') <=> \E k \in 1..fileLen : c \in ToSet(file'[k].clients)
    BY <1>1, <1>2, <1>3, <2>1, SettledFacts DEF Settled
  <2>3. \A c : c \in ClientsOf(Settled) <=> \E k \in 1..fileLen : c \in ToSet(file[k].clients)
    BY <1>2, SettledFacts DEF Settled
  <2> QED BY <1>3, <2>2, <2>3
<1> QED BY <1>1, <1>4, <1>5, CommandsSame, OrderedStored

LEMMA StoppingOrdered ==
    ASSUME Flow, Flow', Ordered,
           \/ SubmissionFails \/ CompleteDoomed \/ RepairSync \/ RepairFails
           \/ MaterializePanics \/ WorkerEnds
    PROVE  Ordered'
<1> USE DEF storage, images, ingress, answers, callerVars, workerVars, history
<1>1. /\ UNCHANGED <<admitted, client, file>> /\ batch' = <<>> /\ inflight' = NoEpoch
      /\ pending' = <<>> /\ queue' = <<>>
      /\ disk' = disk \/ disk' = file
  BY DEF SubmissionFails, CompleteDoomed, RepairSync, RepairFails, MaterializePanics,
     WorkerEnds, Returns
<1>2. Within(file, file) /\ Within(disk, disk)
  BY WithinSame DEF Flow, FlowTyped, FileTyped
<1>3. Commands' = <<>>
  BY <1>1, CommandsGone
<1> QED BY <1>1, <1>2, <1>3, OrderedGone

LEMMA KernelOrdered ==
    ASSUME Flow, Flow', Shape, Ordered, Kernel
    PROVE  Ordered'
<1> USE DEF storage, images, ingress, answers, callerVars, workerVars, history
<1>1. UNCHANGED <<admitted, client, fileLen, inflight, batch, pending, queue>>
  BY DEF Kernel, KernelWritesPart, KernelWrites, KernelSyncs
<1>2. Alive
  BY DEF Kernel, KernelWritesPart, KernelWrites, KernelSyncs, Flow, Phases, Alive
<1>3. /\ file \in Seq(JournalRecord) /\ disk \in Seq(JournalRecord) /\ inflight \in EpochBatch
      /\ fileLen \in Nat /\ fileLen <= Len(file)
  BY <1>2 DEF Flow, FlowTyped, FileTyped, WorkerTyped, Offset
<1>4. Commands' = Commands
  BY <1>1, CommandsSame
<1>5. CASE KernelSyncs
  <2>1. file' = file /\ disk' = file
    BY <1>5 DEF KernelSyncs
  <2>2. Settled' = Settled /\ Within(file, file)
    BY <1>1, <1>3, <2>1, WithinSame DEF Settled
  <2> QED BY <1>1, <1>4, <2>1, <2>2, OrderedStored
<1>6. ASSUME NEW w \in BOOLEAN, file' = AtOffset(inflight, w), disk' = disk
      PROVE  Ordered'
  <2>1. /\ file' \in Seq(JournalRecord) /\ Len(file') = fileLen + 1
        /\ \A k \in 1..fileLen : file'[k] = file[k]
        /\ file'[fileLen + 1].clients = inflight.clients
    <3> DEFINE a == AtOffset(inflight, w)
    <3>1. /\ a \in Seq(JournalRecord) /\ Len(a) = fileLen + 1
          /\ \A k \in 1..fileLen : a[k] = file[k]
          /\ a[fileLen + 1].clients = inflight.clients
      BY <1>3, AtOffsetFacts
    <3>2. file' = a
      BY <1>6
    <3> HIDE DEF a
    <3> QED BY <3>1, <3>2
  <2>2. \A c : c \in ClientsOf(Settled) <=> \E k \in 1..fileLen : c \in ToSet(file[k].clients)
    BY <1>3, SettledFacts DEF Settled
  <2>3. /\ Tickets(admitted, client)
        /\ Line(admitted, file, disk, Settled, inflight.clients, batch, Commands)
    BY OrderedLine
  <2>4. \A k \in 1..fileLen : file'[k] = file[k] /\ ToSet(file[k].clients) \subseteq ClientsOf(Settled)
    BY <2>1, <2>2
  <2>5. Line(admitted, file', disk, Settled, inflight.clients, batch, Commands)
    BY <1>3, <2>1, <2>3, <2>4, LineWritten
  <2>6. Settled' = Settled
    <3>1. fileLen <= Len(file')
      BY <1>3, <2>1
    <3>2. Settled' = SubSeq(file', 1, fileLen)
      BY <1>1 DEF Settled
    <3>3. /\ Settled \in Seq(JournalRecord) /\ Len(Settled) = fileLen
          /\ \A k \in 1..fileLen : Settled[k] = file[k]
      BY <1>3, PrefixFacts DEF Settled
    <3>4. /\ Settled' \in Seq(JournalRecord) /\ Len(Settled') = fileLen
          /\ \A k \in 1..fileLen : Settled'[k] = file'[k]
      BY <1>3, <2>1, <3>1, <3>2, PrefixFacts
    <3> QED BY <2>1, <3>3, <3>4, SeqEqual
  <2> QED BY <1>1, <1>4, <1>6, <2>3, <2>5, <2>6, OrderedLine
<1> QED BY <1>5, <1>6 DEF Kernel, KernelWritesPart, KernelWrites

LEMMA WritebackOrdered ==
    ASSUME Flow, Flow', Ordered, Writeback
    PROVE  Ordered'
<1> USE DEF storage, images, ingress, answers, callerVars, workerVars, history
<1>1. UNCHANGED <<admitted, client, file, fileLen, inflight, batch, pending, queue>>
      /\ (disk' = disk \/ disk' \in Writebacks(disk, file))
  BY DEF Writeback
<1>2. file \in Seq(JournalRecord) /\ disk \in Seq(JournalRecord)
  BY DEF Flow, FlowTyped, FileTyped
<1>3. disk' \in Writebacks(disk, file) => Within(disk', file)
  <2> SUFFICES ASSUME NEW img \in Writebacks(disk, file)  PROVE Within(img, file)
    OBVIOUS
  <2> QED BY <1>2, WritebackFacts DEF Within
<1>4. Within(file, file) /\ Within(disk, disk) /\ Settled' = Settled
  BY <1>1, <1>2, WithinSame DEF Settled
<1> QED BY <1>1, <1>3, <1>4, CommandsSame, OrderedStored

LEMMA CrashOrdered ==
    ASSUME Flow, Flow', Ordered, ProcessExit \/ PowerLoss
    PROVE  Ordered'
<1> USE DEF storage, images
<1>1. /\ UNCHANGED <<admitted, client, disk>> /\ batch' = <<>> /\ inflight' = NoEpoch
      /\ pending' = <<>> /\ queue' = <<>> /\ (file' = file \/ file' = disk)
  BY DEF ProcessExit, PowerLoss, Crash
<1>2. Within(file, file) /\ Within(disk, disk)
  BY WithinSame DEF Flow, FlowTyped, FileTyped
<1>3. Commands' = <<>>
  BY <1>1, CommandsGone
<1> QED BY <1>1, <1>2, <1>3, OrderedGone

LEMMA NextOrdered ==
    ASSUME Flow, Flow', Shape, Ordered, [Next]_vars
    PROVE  Ordered'
<1>1. CASE UNCHANGED vars
  <2>1. UNCHANGED <<admitted, client, file, disk, fileLen, inflight, batch, pending, queue>>
    BY <1>1 DEF vars, storage, ingress, workerVars, history
  <2> QED BY <2>1, CommandsSame, OrderedSame
<1>2. CASE Open
  BY <1>2, OpenOrdered
<1>3. CASE Users \/ Caller \/ Snapshot
  BY <1>3, UsersOrdered
<1>4. CASE Worker \/ Failure
  BY <1>4, ClaimOrdered, TurnsOrdered, SubmitAdmissionOrdered, CompleteOrdered,
     RepairTruncateOrdered, StoppingOrdered DEF Worker, Failure
<1>5. CASE Kernel
  BY <1>5, KernelOrdered
<1>6. CASE Writeback
  BY <1>6, WritebackOrdered
<1>7. CASE ProcessExit \/ PowerLoss
  BY <1>7, CrashOrdered
<1> QED BY <1>1, <1>2, <1>3, <1>4, <1>5, <1>6, <1>7 DEF Next

-----------------------------------------------------------------------------
(* What one step can do to the storage.                                      *)

\* What is certified stays, up to and including the record.
Keeps == \A e \in Nat : Secured(e) => Secured(e)' /\ \A j \in 1..e : file'[j] = file[j]

\* Only the epoch that is being written can enter a journal.
OnlyInflight ==
    ClientsOf(file') \cup ClientsOf(disk')
        \subseteq ClientsOf(file) \cup ClientsOf(disk) \cup ToSet(inflight.clients)

\* The storage is left alone, synchronized, written back, lost, recovered,
\* repaired or written at the offset; the offset never goes back.
StorageMoves ==
    /\ Alive' => (Alive /\ fileLen <= fileLen') \/ (fileLen' = Len(file) /\ file' = file)
    /\ \/ file' = file /\ (disk' = disk \/ disk' = file \/ disk' \in Writebacks(disk, file))
       \/ file' = disk /\ disk' = disk /\ ~Alive'
       \/ file' = GoodPrefix(file) /\ disk' = disk /\ ~Alive'
       \/ Alive /\ fileLen' = fileLen /\ file' = SubSeq(file, 1, fileLen) /\ disk' = disk
       \/ /\ Alive /\ fileLen' = fileLen /\ disk' = disk
          /\ \E w \in BOOLEAN : file' = AtOffset(inflight, w)

LEMMA StepMoves ==
    ASSUME Flow, Shape, [Next]_vars
    PROVE  StorageMoves
<1> USE DEF storage, images, ingress, answers, callerVars, workerVars, history
<1>1. fileLen \in Nat
  BY DEF Flow, FlowTyped, FileTyped
<1>2. ASSUME UNCHANGED <<storage, fileLen>>, Alive' => Alive  PROVE StorageMoves
  BY <1>1, <1>2 DEF StorageMoves
<1>3. CASE UNCHANGED vars
  BY <1>2, <1>3 DEF vars, Alive
<1>4. CASE Open
  <2>1. CASE OpenFromImage \/ Replay
    BY <2>1 DEF OpenFromImage, Replay, Started, StorageMoves
  <2>2. CASE OpenClean
    BY <2>2 DEF OpenClean, StorageMoves, Alive
  <2>3. CASE OpenTruncate
    BY <2>3, TruncateFacts DEF OpenTruncate, StorageMoves, Alive
  <2>4. CASE OpenSync
    BY <2>4 DEF OpenSync, StorageMoves, Alive
  <2> QED BY <1>4, <2>1, <2>2, <2>3, <2>4 DEF Open
<1>5. CASE Users \/ Caller \/ Snapshot
  <2>1. UNCHANGED <<storage, fileLen, worker>>
    BY <1>5 DEF Users, Submit, SubmitEpoch, Send, Shutdown, Caller, FlushLock, FlushSend,
       FlushReturns, FlushStopped, Snapshot, CallEnds, SnapshotWorld, SnapshotJournal,
       SnapshotRename, SnapshotSync
  <2> QED BY <1>2, <2>1 DEF Alive
<1>6. CASE \/ TakeCommand \/ NoCommand \/ Claim \/ ClaimSetsAside \/ ClaimEnds
           \/ SubmitAdmission \/ CompleteFails \/ PopDurable \/ Materialize
           \/ MaterializePanicsFirst \/ AnswerBarrier
  <2>1. UNCHANGED <<storage, fileLen>>
    BY <1>6 DEF TakeCommand, NoCommand, Claim, ClaimSetsAside, ClaimEnds, SubmitAdmission,
       CompleteFails, PopDurable, Materialize, MaterializePanicsFirst, AnswerBarrier
  <2>2. Alive
    BY <1>6 DEF TakeCommand, NoCommand, Seeking, Claim, ClaimSetsAside, ClaimEnds,
       SubmitAdmission, CompleteFails, PopDurable, Materialize, MaterializePanicsFirst, Panics,
       AnswerBarrier, Alive
  <2> QED BY <1>2, <2>1, <2>2
<1>7. CASE Complete \/ CompleteDoomed
  <2>1. Alive /\ file' = file /\ disk' = disk /\ fileLen' = fileLen + 1
    BY <1>7 DEF Complete, CompleteDoomed, Alive
  <2> QED BY <1>1, <2>1 DEF StorageMoves
<1>8. CASE RepairTruncate
  <2>1. Alive /\ file' = SubSeq(file, 1, fileLen) /\ disk' = disk /\ fileLen' = fileLen
    BY <1>8 DEF RepairTruncate, Alive
  <2> QED BY <1>1, <2>1 DEF StorageMoves
<1>9. CASE SubmissionFails \/ RepairSync \/ RepairFails \/ MaterializePanics \/ WorkerEnds
  <2>1. Alive /\ file' = file /\ (disk' = disk \/ disk' = file) /\ fileLen' = fileLen
    BY <1>9 DEF SubmissionFails, RepairSync, RepairFails, MaterializePanics, Panics, WorkerEnds,
       Alive
  <2> QED BY <1>1, <2>1 DEF StorageMoves
<1>10. CASE Kernel
  <2>1. Alive /\ UNCHANGED <<fileLen, inflight>>
    BY <1>10 DEF Kernel, KernelWritesPart, KernelWrites, KernelSyncs, Flow, Phases, Alive
  <2>2. CASE KernelSyncs
    BY <1>1, <2>1, <2>2 DEF KernelSyncs, StorageMoves
  <2>3. CASE KernelWritesPart \/ KernelWrites
    <3>1. disk' = disk /\ \E w \in BOOLEAN : file' = AtOffset(inflight, w)
      BY <2>3 DEF KernelWritesPart, KernelWrites
    <3> QED BY <1>1, <2>1, <3>1 DEF StorageMoves
  <2> QED BY <1>10, <2>2, <2>3 DEF Kernel
<1>11. CASE Writeback
  <2>1. file' = file /\ UNCHANGED <<worker, fileLen>>
        /\ (disk' = disk \/ disk' \in Writebacks(disk, file))
    BY <1>11 DEF Writeback
  <2> QED BY <1>1, <2>1 DEF StorageMoves, Alive
<1>12. CASE ProcessExit \/ PowerLoss
  <2>1. ~Alive' /\ disk' = disk /\ (file' = file \/ file' = disk)
    BY <1>12 DEF ProcessExit, PowerLoss, Crash, Alive
  <2> QED BY <2>1 DEF StorageMoves
<1> QED BY <1>3, <1>4, <1>5, <1>6, <1>7, <1>8, <1>9, <1>10, <1>11, <1>12
        DEF Next, Worker, Failure

LEMMA MovesKeep ==
    ASSUME Flow, Flow', StorageMoves
    PROVE  Keeps
<1>1. /\ file \in Seq(JournalRecord) /\ disk \in Seq(JournalRecord) /\ fileLen \in Nat
      /\ Len(file) \in Nat /\ Len(disk) \in Nat /\ fileLen' \in Nat
      /\ Alive => fileLen <= Len(file)
  BY LenProperties DEF Flow, FlowTyped, FileTyped, Offset
<1> SUFFICES ASSUME NEW e \in Nat, Secured(e)
             PROVE  Secured(e)' /\ \A j \in 1..e : file'[j] = file[j]
  BY DEF Keeps
<1>2. /\ e \in 1..Len(file) /\ e <= Len(disk) /\ \A j \in 1..e : file[j] = disk[j]
      /\ file[e].whole /\ (Alive => e <= fileLen) /\ e \in 1..e
  BY DEF Secured
<1>3. Alive' => e <= fileLen'
  BY <1>1, <1>2 DEF StorageMoves
<1>4. ASSUME NEW n \in Nat, Len(file') = n, e <= n, \A j \in 1..e : file'[j] = file[j],
             NEW m \in Nat, Len(disk') = m, e <= m, \A j \in 1..e : disk'[j] = file[j]
      PROVE  Secured(e)' /\ \A j \in 1..e : file'[j] = file[j]
  BY <1>2, <1>3, <1>4 DEF Secured
<1>5. CASE file' = file /\ (disk' = disk \/ disk' = file)
  BY <1>1, <1>2, <1>4, <1>5
<1>6. CASE file' = file /\ disk' \in Writebacks(disk, file)
  <2>1. ASSUME NEW j \in 1..e  PROVE j <= Len(disk') /\ disk'[j] = file[j]
    <3>1. j \in 1..Len(file) /\ j <= Len(disk) /\ \A k \in 1..j : disk[k] = file[k]
      BY <1>1, <1>2
    <3>2. \A img \in Writebacks(disk, file) : j <= Len(img) /\ img[j] = file[j]
      BY <1>1, <3>1, WritebackFacts
    <3> QED BY <1>6, <3>2
  <2>2. Len(disk') \in Nat
    BY LenProperties DEF Flow, FlowTyped, FileTyped
  <2> QED BY <1>1, <1>2, <1>4, <1>6, <2>1, <2>2
<1>7. CASE file' = disk /\ disk' = disk
  BY <1>1, <1>2, <1>4, <1>7
<1>8. CASE file' = GoodPrefix(file) /\ disk' = disk
  <2> DEFINE n == Len(GoodPrefix(file))
  <2>1. /\ n \in Nat /\ n <= Len(file) /\ Len(file) <= n + 1
        /\ \A j \in 1..n : GoodPrefix(file)[j] = file[j]
        /\ n < Len(file) <=> TornTail(file)
    BY <1>1, GoodPrefixFacts
  <2> HIDE DEF n
  <2>2. e <= n
    <3>1. CASE e < Len(file)
      BY <1>1, <2>1, <3>1
    <3>2. CASE e = Len(file)
      <4>1. ~TornTail(file)
        BY <1>2, <3>2 DEF TornTail
      <4> QED BY <1>1, <2>1, <3>2, <4>1
    <3> QED BY <1>1, <1>2, <3>1, <3>2
  <2>3. \A j \in 1..e : GoodPrefix(file)[j] = file[j]
    BY <2>1, <2>2
  <2> QED BY <1>1, <1>2, <1>4, <1>8, <2>1, <2>2, <2>3 DEF n
<1>9. CASE Alive /\ file' = SubSeq(file, 1, fileLen) /\ disk' = disk
  <2>1. Len(file') = fileLen /\ \A j \in 1..fileLen : file'[j] = file[j]
    BY <1>1, <1>9, PrefixFacts
  <2>2. e <= fileLen /\ \A j \in 1..e : j \in 1..fileLen
    BY <1>1, <1>2, <1>9
  <2> QED BY <1>1, <1>2, <1>4, <1>9, <2>1, <2>2
<1>10. ASSUME Alive, disk' = disk, NEW w \in BOOLEAN, file' = AtOffset(inflight, w)
       PROVE  Secured(e)' /\ \A j \in 1..e : file'[j] = file[j]
  <2> DEFINE a == AtOffset(inflight, w)
  <2>1. inflight \in EpochBatch
    BY DEF Flow, FlowTyped, WorkerTyped
  <2>2. Len(a) = fileLen + 1 /\ \A j \in 1..fileLen : a[j] = file[j]
    BY <1>1, <1>10, <2>1, AtOffsetFacts
  <2>3. file' = a
    BY <1>10
  <2> HIDE DEF a
  <2>4. e <= fileLen + 1 /\ fileLen + 1 \in Nat /\ \A j \in 1..e : j \in 1..fileLen
    BY <1>1, <1>2, <1>10
  <2> QED BY <1>1, <1>2, <1>4, <1>10, <2>2, <2>3, <2>4
<1> QED BY <1>5, <1>6, <1>7, <1>8, <1>9, <1>10 DEF StorageMoves

LEMMA MovesOnlyInflight ==
    ASSUME Flow, StorageMoves
    PROVE  OnlyInflight
<1>1. /\ file \in Seq(JournalRecord) /\ disk \in Seq(JournalRecord) /\ fileLen \in Nat
      /\ Alive => fileLen <= Len(file)
      /\ inflight \in EpochBatch
  BY DEF Flow, FlowTyped, FileTyped, WorkerTyped, Offset
<1>2. \A img \in Writebacks(disk, file) : ClientsOf(img) \subseteq ClientsOf(file)
  <2> TAKE img \in Writebacks(disk, file)
  <2>1. Within(img, file)
    BY <1>1, WritebackFacts DEF Within
  <2> QED BY <2>1, WithinFacts
<1>3. ClientsOf(GoodPrefix(file)) \subseteq ClientsOf(file)
  <2>1. Within(GoodPrefix(file), file)
    BY <1>1, GoodPrefixFacts DEF Within
  <2> QED BY <2>1, WithinFacts
<1>4. Alive => ClientsOf(SubSeq(file, 1, fileLen)) \subseteq ClientsOf(file)
  BY <1>1, SettledFacts
<1>5. ASSUME Alive, NEW w \in BOOLEAN
      PROVE  ClientsOf(AtOffset(inflight, w)) \subseteq ClientsOf(file) \cup ToSet(inflight.clients)
  <2> DEFINE a == AtOffset(inflight, w)
  <2>1. /\ a \in Seq(JournalRecord) /\ Len(a) = fileLen + 1
        /\ \A j \in 1..fileLen : a[j] = file[j]
        /\ a[fileLen + 1].clients = inflight.clients
    BY <1>1, <1>5, AtOffsetFacts
  <2> HIDE DEF a
  <2>2. /\ \A j \in 1..(fileLen + 1) : j \in 1..fileLen \/ j = fileLen + 1
        /\ \A j \in 1..fileLen : j \in 1..Len(file)
    BY <1>1, <1>5, LenProperties
  <2>3. \A c : c \in ClientsOf(a) <=> \E j \in 1..Len(a) : c \in ToSet(a[j].clients)
    BY <2>1, ClientsOfFacts
  <2>4. \A c : c \in ClientsOf(file) <=> \E j \in 1..Len(file) : c \in ToSet(file[j].clients)
    BY <1>1, ClientsOfFacts
  <2>5. ClientsOf(a) \subseteq ClientsOf(file) \cup ToSet(inflight.clients)
    BY <2>1, <2>2, <2>3, <2>4
  <2> QED BY <2>5 DEF a
<1> QED BY <1>2, <1>3, <1>4, <1>5 DEF StorageMoves, OnlyInflight

\* A live worker's storage stays as it is up to the offset.
LEMMA MovesSettled ==
    ASSUME Flow, StorageMoves, Alive, Alive'
    PROVE  \A k \in 1..fileLen : file'[k] = file[k]
<1>1. /\ file \in Seq(JournalRecord) /\ fileLen \in Nat /\ fileLen <= Len(file)
      /\ inflight \in EpochBatch
  BY DEF Flow, FlowTyped, FileTyped, WorkerTyped, Offset
<1>2. \A k \in 1..fileLen : SubSeq(file, 1, fileLen)[k] = file[k]
  BY <1>1, PrefixFacts
<1>3. \A w \in BOOLEAN : \A k \in 1..fileLen : AtOffset(inflight, w)[k] = file[k]
  <2> TAKE w \in BOOLEAN
  <2> QED BY <1>1, AtOffsetFacts
<1> QED BY <1>2, <1>3 DEF StorageMoves

-----------------------------------------------------------------------------
(* Receipts.                                                                 *)

LEMMA PairFacts ==
    ASSUME NEW k, NEW p
    PROVE  /\ <<k, p>> # None /\ <<k, p>> # Err /\ None # Err
           /\ <<k, p>>[1] = k /\ <<k, p>>[2] = p
<1>1. Len(<<k, p>>) = 2 /\ Len(<<>>) = 0 /\ Len(<<0>>) = 1
  OBVIOUS
<1> QED BY <1>1 DEF None, Err

\* The clients in line are distinct.
LEMMA LineDistinct ==
    ASSUME Flow, Ordered
    PROVE  /\ Waiting \cap ToSet(inflight.clients) = {}
           /\ ClientsOf(Settled) \cap ToSet(inflight.clients) = {}
           /\ \A p, q \in 1..Len(inflight.clients) :
                 inflight.clients[p] = inflight.clients[q] => p = q
<1>1. /\ Tickets(admitted, client)
      /\ Line(admitted, file, disk, Settled, inflight.clients, batch, Commands)
  BY OrderedLine
<1>2. ASSUME NEW c, Before(admitted, c, c)  PROVE FALSE
  <2>1. PICK x \in DOMAIN admitted, y \in DOMAIN admitted :
            x < y /\ admitted[x] = c /\ admitted[y] = c
    BY <1>2 DEF Before
  <2>2. x \in 1..Len(admitted) /\ y \in 1..Len(admitted) /\ Len(admitted) \in Nat
    BY <1>1, LenProperties DEF Tickets
  <2>3. x = y
    BY <1>1, <2>1, <2>2 DEF Tickets
  <2> QED BY <2>1, <2>2, <2>3
<1>3. Waiting \cap ToSet(inflight.clients) = {}
  BY <1>1, <1>2 DEF Line, Spaced, Waiting
<1>4. ClientsOf(Settled) \cap ToSet(inflight.clients) = {}
  BY <1>1, <1>2 DEF Line, Spaced
<1>5. ASSUME NEW p \in 1..Len(inflight.clients), NEW q \in 1..Len(inflight.clients),
             inflight.clients[p] = inflight.clients[q], p # q
      PROVE  FALSE
  <2>1. inflight.clients \in Seq(Clients)
    BY DEF Flow, FlowTyped, WorkerTyped, EpochBatch
  <2>2. DOMAIN inflight.clients = 1..Len(inflight.clients) /\ Len(inflight.clients) \in Nat
    BY <2>1, LenProperties
  <2>3. p < q \/ q < p
    BY <1>5, <2>2
  <2>4. Before(admitted, inflight.clients[p], inflight.clients[p])
    BY <1>1, <1>5, <2>2, <2>3 DEF Line, Listed
  <2> QED BY <1>2, <2>4
<1> QED BY <1>3, <1>4, <1>5

\* What notify_admitted sends: every client of the epoch its own place.
LEMMA NotifiedFacts ==
    ASSUME Flow, Ordered, ReceiptsTyped
    PROVE  /\ Notified(inflight) \in [Clients -> {None, Err} \cup (Nat \X Nat)]
           /\ \A p \in 1..Len(inflight.clients) :
                 Notified(inflight)[inflight.clients[p]] = <<inflight.id, p>>
           /\ \A c \in Clients : c \notin ToSet(inflight.clients) =>
                 Notified(inflight)[c] = receipt[c]
<1> DEFINE s == inflight.clients
           place(c) == CHOOSE i \in DOMAIN s : s[i] = c
<1>1. /\ s \in Seq(Clients) /\ inflight.id \in Nat /\ DOMAIN s = 1..Len(s)
      /\ Len(s) \in Nat
  BY LenProperties DEF Flow, FlowTyped, WorkerTyped, EpochBatch
<1>2. /\ \A c : c \in ToSet(s) <=> \E i \in 1..Len(s) : s[i] = c
      /\ \A p \in 1..Len(s) : s[p] \in Clients
  BY <1>1, ToSetFacts
<1>3. \A p, q \in 1..Len(s) : s[p] = s[q] => p = q
  BY LineDistinct
<1>4. \A c \in ToSet(s) : place(c) \in 1..Len(s) /\ s[place(c)] = c
  BY <1>1, <1>2
<1>5. \A c \in Clients : Notified(inflight)[c] =
          IF c \in ToSet(s) THEN <<inflight.id, place(c)>> ELSE receipt[c]
  BY DEF Notified
<1>6. Notified(inflight) = [c \in Clients |->
          IF c \in ToSet(s) THEN <<inflight.id, place(c)>> ELSE receipt[c]]
  BY DEF Notified
<1> HIDE DEF s, place
<1>7. Notified(inflight) \in [Clients -> {None, Err} \cup (Nat \X Nat)]
  <2>1. \A c \in ToSet(s) : <<inflight.id, place(c)>> \in Nat \X Nat
    BY <1>1, <1>4
  <2>2. \A c \in Clients : receipt[c] \in {None, Err} \cup (Nat \X Nat)
    BY DEF ReceiptsTyped
  <2>3. \A c \in Clients : (IF c \in ToSet(s) THEN <<inflight.id, place(c)>> ELSE receipt[c])
                              \in {None, Err} \cup (Nat \X Nat)
    BY <2>1, <2>2
  <2> QED BY <1>6, <2>3
<1>8. ASSUME NEW p \in 1..Len(s)  PROVE Notified(inflight)[s[p]] = <<inflight.id, p>>
  <2>1. s[p] \in ToSet(s) /\ s[p] \in Clients
    BY <1>2
  <2>2. place(s[p]) = p
    BY <1>3, <1>4, <2>1
  <2> QED BY <1>5, <2>1, <2>2
<1> QED BY <1>5, <1>7, <1>8 DEF s

\* Certificates outlive every step; a step may take receipts away, not move them.
LEMMA CertificateKept ==
    ASSUME Receipts, Keeps, NEW c \in Clients, Certified(c), receipt'[c] = receipt[c]
    PROVE  Certificate(c)'
<1>1. receipt[c][1] \in Nat
  BY DEF Certified, Receipts, ReceiptsTyped
<1>2. PICK e \in Nat : e = receipt[c][1]
  BY <1>1
<1>3. /\ Secured(e) /\ receipt[c][2] \in 1..Len(file[e].clients)
      /\ file[e].clients[receipt[c][2]] = c
  BY <1>2 DEF Receipts, Certificates, Certificate
<1>4. e \in 1..e
  BY <1>3 DEF Secured
<1>5. Secured(e)' /\ \A j \in 1..e : file'[j] = file[j]
  BY <1>3 DEF Keeps
<1>6. file'[e] = file[e]
  BY <1>4, <1>5
<1>7. e = receipt'[c][1]
  BY <1>2
<1>8. /\ receipt'[c][2] \in 1..Len(file'[receipt'[c][1]].clients)
      /\ file'[receipt'[c][1]].clients[receipt'[c][2]] = c
  BY <1>3, <1>6, <1>7
<1> QED BY <1>5, <1>7, <1>8 DEF Certificate, Secured

\* Steps that send nobody anything.
LEMMA ReceiptsSame ==
    ASSUME Flow, Ordered, Receipts, Keeps, OnlyInflight, UNCHANGED <<receipt, client>>,
           lame => lame', Upcoming' \subseteq Upcoming, Waiting' \subseteq Waiting, Notices'
    PROVE  Receipts'
<1>1. ReceiptsTyped'
  BY DEF Receipts, ReceiptsTyped
<1>2. Certificates'
  <2> SUFFICES ASSUME NEW c \in Clients, Certified(c)'  PROVE Certificate(c)'
    BY DEF Certificates
  <2>1. Certified(c) /\ receipt'[c] = receipt[c]
    BY DEF Certified
  <2> QED BY <2>1, CertificateKept
<1>3. \A c \in ToSet(inflight.clients) : receipt[c] # Err
  BY PairFacts DEF Receipts, Unanswered, Upcoming
<1>4. Refusals'
  BY <1>3 DEF Receipts, Refusals, OnlyInflight
<1>5. Unanswered'
  BY DEF Receipts, Unanswered
<1>6. Unwritten'
  BY LineDistinct DEF Receipts, Unwritten, OnlyInflight
<1> QED BY <1>1, <1>2, <1>4, <1>5, <1>6 DEF Receipts

\* The places of what is still to be applied, while the offset stands still.
LEMMA NoticesKept ==
    ASSUME Flow, Shape, Receipts, StorageMoves, receipt' = receipt, appliedEpochs' \in Nat,
           Receiving' /\ ~doomed' =>
              /\ Receiving /\ ~doomed /\ fileLen' = fileLen
              /\ appliedEpochs <= appliedEpochs'
    PROVE  Notices'
<1>0. ASSUME NEW a \in Nat, NEW b \in Nat, NEW n \in Nat, a <= b, NEW j \in (b + 1)..n
      PROVE  j \in 1..n /\ j \in (a + 1)..n
  BY <1>0
<1> SUFFICES ASSUME Receiving', ~doomed', NEW k \in (appliedEpochs' + 1)..fileLen',
                    NEW p \in 1..Len(file'[k].clients)
             PROVE  receipt'[file'[k].clients[p]] = <<k, p>>
  BY DEF Notices
<1>1. /\ Receiving /\ ~doomed /\ fileLen' = fileLen /\ appliedEpochs <= appliedEpochs'
      /\ fileLen \in Nat /\ appliedEpochs \in Nat
  BY DEF Flow, FlowTyped, FileTyped, Shape, StorageTyped
<1>2. k \in 1..fileLen /\ k \in (appliedEpochs + 1)..fileLen
  BY <1>0, <1>1
<1>3. file'[k] = file[k]
  BY <1>1, <1>2, MovesSettled DEF Receiving
<1> QED BY <1>1, <1>2, <1>3 DEF Receipts, Notices

LEMMA InitReceipts == Init => Receipts
<1> SUFFICES ASSUME Init  PROVE Receipts
  OBVIOUS
<1>1. /\ \A c \in Clients : receipt[c] = None /\ None # Err
      /\ receipt = [c \in Clients |-> None]
      /\ inflight.clients = <<>> /\ batch = <<>> /\ Commands = <<>>
      /\ ~Receiving
  BY PairFacts DEF Init, NoEpoch, Commands, Receiving, Alive
<1>2. ToSet(<<>>) = {} /\ ClientsOf(<<>>) = {}
  BY ToSetEmpty, ClientsOfEmpty
<1>3. ReceiptsTyped /\ Certificates /\ Refusals /\ Notices
  BY <1>1 DEF ReceiptsTyped, Certificates, Certified, Refusals, Notices
<1>4. Unanswered /\ Unwritten
  BY <1>1, <1>2 DEF Unanswered, Unwritten, Upcoming, Waiting
<1> QED BY <1>3, <1>4 DEF Receipts

\* Everything the worker had is gone, nobody is told anything.
LEMMA ReceiptsGone ==
    ASSUME Flow, Ordered, Receipts, Keeps, OnlyInflight, UNCHANGED <<receipt, client>>,
           lame => lame', batch' = <<>>, inflight' = NoEpoch, Commands' = <<>>, Notices'
    PROVE  Receipts'
<1>1. ToSet(<<>>) = {} /\ ClientsOf(<<>>) = {} /\ NoEpoch.clients = <<>>
  BY ToSetEmpty, ClientsOfEmpty DEF NoEpoch
<1>2. Upcoming' = {} /\ Waiting' = {}
  BY <1>1 DEF Upcoming, Waiting
<1> QED BY <1>2, ReceiptsSame

LEMMA OpenReceipts ==
    ASSUME Flow, Shape, Ordered, Receipts, Keeps, OnlyInflight, Open, ~misled'
    PROVE  Receipts'
<1> USE DEF storage, images, ingress, answers, callerVars, workerVars, history
<1>1. ~Receiving
  BY DEF Open, OpenFromImage, OpenClean, OpenTruncate, OpenSync, Replay, Receiving, Alive
<1>2. batch = <<>> /\ inflight = NoEpoch /\ Commands = <<>>
  BY <1>1 DEF Flow, Phases, Receiving, Alive
<1>3. UNCHANGED <<receipt, client, lame>>
  BY DEF Open, OpenFromImage, OpenClean, OpenTruncate, OpenSync, Replay, Started
<1>4. CASE OpenFromImage \/ Replay
  <2>1. batch' = <<>> /\ inflight' = NoEpoch /\ Commands' = <<>>
    BY <1>4, CommandsGone DEF OpenFromImage, Replay, Started
  <2>2. fileLen' = Len(file) /\ appliedEpochs' = Len(file)
    <3>1. image.valid /\ image.quiet /\ image.journal = file => image.count = Len(file)
      BY DEF Shape, Images, GoodImage
    <3> QED BY <1>4, <3>1 DEF OpenFromImage, ImageMatches, Replay, Started
  <2>3. Len(file) \in Nat
    BY LenProperties DEF Flow, FlowTyped, FileTyped
  <2>4. (appliedEpochs' + 1)..fileLen' = {}
    BY <2>2, <2>3
  <2>5. Notices'
    BY <2>4 DEF Notices
  <2> QED BY <1>3, <2>1, <2>5, ReceiptsGone
<1>5. CASE OpenClean \/ OpenTruncate \/ OpenSync
  <2>1. batch' = <<>> /\ inflight' = NoEpoch /\ Commands' = <<>>
    BY <1>2, <1>5, CommandsSame DEF OpenClean, OpenTruncate, OpenSync
  <2>2. ~Receiving'
    BY <1>5 DEF OpenClean, OpenTruncate, OpenSync, Receiving, Alive
  <2>3. Notices'
    BY <2>2 DEF Notices
  <2> QED BY <1>3, <2>1, <2>3, ReceiptsGone
<1> QED BY <1>4, <1>5 DEF Open

\* Crashes, and the returns of the worker that answer nobody.
LEMMA LostReceipts ==
    ASSUME Flow, Ordered, Receipts, Keeps, OnlyInflight,
           MaterializePanics \/ WorkerEnds \/ ProcessExit \/ PowerLoss
    PROVE  Receipts'
<1> USE DEF storage, images, ingress, answers, callerVars, workerVars, history
<1>1. /\ UNCHANGED <<receipt, client, lame>> /\ batch' = <<>> /\ inflight' = NoEpoch
      /\ pending' = <<>> /\ queue' = <<>> /\ worker' \in {"stopped", "down"}
  BY DEF MaterializePanics, WorkerEnds, ProcessExit, PowerLoss, Crash, Returns
<1>2. Commands' = <<>> /\ ~Receiving'
  BY <1>1, CommandsGone DEF Receiving, Alive
<1>3. Notices'
  BY <1>2 DEF Notices
<1> QED BY <1>1, <1>2, <1>3, ReceiptsGone

\* Steps that only move what is in line, or nothing.
LEMMA TurnsReceipts ==
    ASSUME Flow, Shape, Shape', Ordered, Receipts, Keeps, OnlyInflight, StorageMoves,
           \/ TakeCommand \/ NoCommand \/ Claim \/ ClaimSetsAside \/ ClaimEnds
           \/ SubmitAdmission \/ CompleteFails \/ RepairTruncate \/ PopDurable \/ Materialize
           \/ MaterializePanicsFirst \/ AnswerBarrier \/ Kernel \/ Writeback
           \/ Shutdown \/ FlushLock \/ FlushReturns \/ FlushStopped \/ Snapshot
           \/ UNCHANGED vars
    PROVE  Receipts'
<1> USE DEF storage, images, ingress, answers, callerVars, workerVars, history
<1>1. UNCHANGED <<receipt, client, lame, fileLen>>
  BY DEF TakeCommand, NoCommand, Claim, ClaimSetsAside, ClaimEnds, SubmitAdmission,
     CompleteFails, RepairTruncate, PopDurable, Materialize, MaterializePanicsFirst,
     AnswerBarrier, Kernel, KernelWritesPart, KernelWrites, KernelSyncs, Writeback, Shutdown,
     FlushLock, FlushReturns, FlushStopped, Snapshot, CallEnds, SnapshotWorld, SnapshotJournal,
     SnapshotRename, SnapshotSync, vars
<1>2. /\ appliedEpochs' \in Nat /\ appliedEpochs \in Nat
      /\ pending \in Seq(CommandType) /\ queue \in Seq(CommandType) /\ batch \in Seq(Clients)
      /\ Commands \in Seq(CommandType)
  BY CommandsTyped DEF Shape, StorageTyped, Flow, FlowTyped, ChannelTyped, WorkerTyped
<1>3. ~doomed' => ~doomed /\ (appliedEpochs' = appliedEpochs \/ appliedEpochs' = appliedEpochs + 1)
  BY DEF TakeCommand, NoCommand, Claim, ClaimSetsAside, ClaimEnds, SubmitAdmission,
     CompleteFails, RepairTruncate, PopDurable, Materialize, MaterializePanicsFirst,
     AnswerBarrier, Kernel, KernelWritesPart, KernelWrites, KernelSyncs, Writeback, Shutdown,
     FlushLock, FlushReturns, FlushStopped, Snapshot, CallEnds, SnapshotWorld, SnapshotJournal,
     SnapshotRename, SnapshotSync, vars
<1>4. worker' = worker \/ Receiving
  BY DEF TakeCommand, NoCommand, Seeking, Claim, ClaimSetsAside, ClaimEnds, SubmitAdmission,
     CompleteFails, RepairTruncate, PopDurable, Materialize, MaterializePanicsFirst, Panics,
     AnswerBarrier, Kernel, KernelWritesPart, KernelWrites, KernelSyncs, Writeback, Shutdown,
     FlushLock, FlushReturns, FlushStopped, Snapshot, CallEnds, SnapshotWorld, SnapshotJournal,
     SnapshotRename, SnapshotSync, vars, Receiving, Alive
<1>5. Receiving' => Receiving
  BY <1>4 DEF Receiving, Alive
<1>6. appliedEpochs' = appliedEpochs \/ appliedEpochs' = appliedEpochs + 1 =>
          appliedEpochs <= appliedEpochs'
  BY <1>2
<1>7. Notices'
  BY <1>1, <1>2, <1>3, <1>5, <1>6, NoticesKept
<1>8. Upcoming' \subseteq Upcoming /\ Waiting' \subseteq Waiting
  <2>1. CASE TakeCommand
    <3>1. Commands # <<>> /\ batch' = Head(Commands).clients /\ UNCHANGED inflight
      BY <2>1 DEF TakeCommand, Commands, Command
    <3>2. ClientsOf(Commands) = ToSet(Head(Commands).clients) \cup ClientsOf(Commands')
      BY <1>2, <2>1, <3>1, CommandsTaken DEF TakeCommand
    <3> QED BY <3>1, <3>2 DEF Upcoming, Waiting
  <2>2. CASE Claim
    <3>1. /\ pending = <<>> /\ pending' = pending /\ queue # <<>> /\ queue' = Tail(queue)
          /\ batch' = batch \o Head(queue).clients /\ UNCHANGED inflight
      BY <2>2 DEF Claim, Flow, Barriers
    <3>2. /\ ClientsOf(Commands) = ToSet(Head(Commands).clients) \cup ClientsOf(Commands')
          /\ Head(Commands) = Head(queue) /\ Head(Commands) \in CommandType
      BY <1>2, <3>1, CommandsClaimed
    <3>3. Head(queue).clients \in Seq(Clients)
      BY <3>2 DEF CommandType
    <3>4. ToSet(batch') = ToSet(batch) \cup ToSet(Head(queue).clients)
      BY <1>2, <3>1, <3>3, ToSetConcat
    <3> QED BY <3>1, <3>2, <3>4 DEF Upcoming, Waiting
  <2>3. CASE SubmitAdmission
    <3>1. inflight'.clients = batch /\ batch' = <<>> /\ UNCHANGED <<pending, queue>>
      BY <2>3 DEF SubmitAdmission
    <3>2. Commands' = Commands /\ ToSet(<<>>) = {}
      BY <3>1, CommandsSame, ToSetEmpty
    <3> QED BY <3>1, <3>2 DEF Upcoming, Waiting
  <2>4. CASE ClaimSetsAside
    <3>1. pending = <<>> /\ UNCHANGED <<inflight, batch>>
      BY <2>4 DEF ClaimSetsAside, Flow, Barriers
    <3>2. Commands' = Commands
      BY <1>2, <2>4, <3>1, CommandsSetAside DEF ClaimSetsAside
    <3> QED BY <3>1, <3>2 DEF Upcoming, Waiting
  <2>5. CASE ~TakeCommand /\ ~Claim /\ ~SubmitAdmission /\ ~ClaimSetsAside
    <3>1. UNCHANGED <<inflight, batch, pending, queue>>
      BY <2>5 DEF NoCommand, ClaimEnds,
         CompleteFails, RepairTruncate, PopDurable, Materialize, MaterializePanicsFirst,
         AnswerBarrier, Kernel, KernelWritesPart, KernelWrites, KernelSyncs, Writeback, Shutdown,
         FlushLock, FlushReturns, FlushStopped, Snapshot, CallEnds, SnapshotWorld,
         SnapshotJournal, SnapshotRename, SnapshotSync, vars
    <3> QED BY <3>1, CommandsSame DEF Upcoming, Waiting
  <2> QED BY <2>1, <2>2, <2>3, <2>4, <2>5
<1> QED BY <1>1, <1>7, <1>8, ReceiptsSame

LEMMA SendReceipts ==
    ASSUME Flow, Shape, Shape', Ordered, Receipts, Keeps, OnlyInflight, StorageMoves,
           NEW x \in CommandType, queue' = Append(queue, x),
           \A c \in ToSet(x.clients) : client[c] = "ready",
           \A c \in Clients : client'[c] = "ready" => client[c] = "ready",
           UNCHANGED <<receipt, lame, file, disk, fileLen, appliedEpochs, worker, doomed,
                       inflight, batch, pending>>
    PROVE  Receipts'
<1>1. /\ pending \in Seq(CommandType) /\ queue \in Seq(CommandType) /\ x.clients \in Seq(Clients)
      /\ appliedEpochs' \in Nat
  BY DEF Flow, FlowTyped, ChannelTyped, CommandType, Shape, StorageTyped
<1>2. ToSet(x.clients) \subseteq Clients
  BY <1>1, ToSetFacts
<1>3. ClientsOf(Commands') = ClientsOf(Commands) \cup ToSet(x.clients)
  BY <1>1, CommandsSent
<1>4. /\ Upcoming' = Upcoming \cup ToSet(x.clients)
      /\ Waiting' = Waiting \cup ToSet(x.clients)
  BY <1>3 DEF Upcoming, Waiting
<1>5. ReceiptsTyped' /\ Refusals'
  BY DEF Receipts, ReceiptsTyped, Refusals
<1>6. Certificates'
  <2> SUFFICES ASSUME NEW c \in Clients, Certified(c)'  PROVE Certificate(c)'
    BY DEF Certificates
  <2>1. Certified(c) /\ receipt'[c] = receipt[c]
    BY DEF Certified
  <2> QED BY <2>1, CertificateKept
<1>7. Unanswered'
  BY <1>2, <1>4 DEF Receipts, Unanswered
<1>8. Unwritten'
  <2>1. ToSet(x.clients) \cap ToSet(admitted) = {}
    BY <1>2 DEF Ordered, Admitted
  <2>2. ClientsOf(file) \cup ClientsOf(disk) \subseteq ToSet(admitted)
    BY DEF Ordered, Admitted
  <2> QED BY <1>4, <2>1, <2>2 DEF Receipts, Unwritten
<1>9. Notices'
  <2>1. Receiving' => Receiving
    BY DEF Receiving, Alive
  <2>2. appliedEpochs <= appliedEpochs'
    BY <1>1
  <2> QED BY <1>1, <2>1, <2>2, NoticesKept
<1> QED BY <1>5, <1>6, <1>7, <1>8, <1>9 DEF Receipts

LEMMA UsersReceipts ==
    ASSUME Flow, Shape, Shape', Ordered, Receipts, Keeps, OnlyInflight, StorageMoves,
           (\E c \in Clients : Submit(c)) \/ SubmitEpoch \/ FlushSend
    PROVE  Receipts'
<1> USE DEF storage, images, ingress, answers, callerVars, workerVars, history
<1>1. ASSUME NEW kind \in {"Intent", "Epoch"}, NEW clients \in Seq(Clients), Send(kind, clients)
      PROVE  Receipts'
  <2> DEFINE x == [kind |-> kind, clients |-> clients]
  <2>1. x \in CommandType /\ x.clients = clients
    BY DEF CommandType
  <2>2. /\ queue' = Append(queue, x)
        /\ UNCHANGED <<receipt, lame, file, disk, fileLen, appliedEpochs, worker, doomed,
                       inflight, batch, pending>>
    BY <1>1 DEF Send
  <2>3. \A c \in ToSet(clients) : client[c] = "ready"
    <3>1. \A i \in 1..Len(clients) : client[clients[i]] = "ready"
      BY <1>1, LenProperties DEF Send
    <3> QED BY <3>1, ToSetFacts
  <2>4. \A c \in Clients : client'[c] = "ready" => client[c] = "ready"
    BY <1>1 DEF Send
  <2> HIDE DEF x
  <2> QED BY <2>1, <2>2, <2>3, <2>4, SendReceipts
<1>2. ASSUME NEW c \in Clients, Submit(c)  PROVE Receipts'
  <2>1. <<c>> \in Seq(Clients) /\ Send("Intent", <<c>>)
    BY <1>2 DEF Submit
  <2> QED BY <1>1, <2>1
<1>3. CASE SubmitEpoch
  BY <1>1, <1>3, BulkTyped DEF SubmitEpoch
<1>4. CASE FlushSend
  <2> DEFINE x == [kind |-> "Barrier", clients |-> <<>>]
  <2>1. x \in CommandType /\ x.clients = <<>>
    BY DEF CommandType
  <2>2. /\ queue' = Append(queue, x)
        /\ UNCHANGED <<receipt, lame, file, disk, fileLen, appliedEpochs, worker, doomed,
                       inflight, batch, pending, client>>
    BY <1>4 DEF FlushSend
  <2>3. \A c \in ToSet(x.clients) : client[c] = "ready"
    BY <2>1, ToSetEmpty
  <2>4. \A c \in Clients : client'[c] = "ready" => client[c] = "ready"
    BY <2>2
  <2> HIDE DEF x
  <2> QED BY <2>1, <2>2, <2>3, <2>4, SendReceipts
<1> QED BY <1>2, <1>3, <1>4

\* The worker returns and refuses the clients of x.
LEMMA RefusedReceipts ==
    ASSUME Flow, Ordered, Receipts, Keeps, OnlyInflight, NEW x \in Seq(Clients),
           receipt' = Refused(x), UNCHANGED client, lame => lame',
           ToSet(x) \subseteq ToSet(admitted),
           \A c \in ToSet(x) : lame' \/ c \notin ClientsOf(file') \cup ClientsOf(disk'),
           batch' = <<>>, inflight' = NoEpoch, Commands' = <<>>, worker' = "stopped"
    PROVE  Receipts'
<1>1. ToSet(<<>>) = {} /\ ClientsOf(<<>>) = {} /\ NoEpoch.clients = <<>>
  BY ToSetEmpty, ClientsOfEmpty DEF NoEpoch
<1>2. Upcoming' = {} /\ Waiting' = {} /\ ~Receiving'
  BY <1>1 DEF Upcoming, Waiting, Receiving
<1>3. \A c \in Clients : receipt'[c] = IF c \in ToSet(x) THEN Err ELSE receipt[c]
  BY DEF Refused
<1>4. ReceiptsTyped'
  BY DEF Receipts, ReceiptsTyped, Refused
<1>5. Certificates'
  <2> SUFFICES ASSUME NEW c \in Clients, Certified(c)'  PROVE Certificate(c)'
    BY DEF Certificates
  <2>1. Certified(c) /\ receipt'[c] = receipt[c]
    BY <1>3 DEF Certified
  <2> QED BY <2>1, CertificateKept
<1>6. \A c \in ToSet(inflight.clients) : receipt[c] # Err
  BY PairFacts DEF Receipts, Unanswered, Upcoming
<1>7. Refusals'
  BY <1>3, <1>6 DEF Receipts, Refusals, OnlyInflight
<1>8. Unanswered'
  <2>1. \A c \in Clients : c \in ToSet(x) => client[c] = "ticket"
    BY DEF Ordered, Admitted
  <2> QED BY <1>2, <1>3, <2>1 DEF Receipts, Unanswered
<1>9. Unwritten' /\ Notices'
  BY <1>2 DEF Unwritten, Notices
<1> QED BY <1>4, <1>5, <1>7, <1>8, <1>9 DEF Receipts

LEMMA FailureReceipts ==
    ASSUME Flow, Shape, Ordered, Receipts, Keeps, OnlyInflight,
           SubmissionFails \/ RepairSync \/ RepairFails
    PROVE  Receipts'
<1> USE DEF storage, images, ingress, answers, callerVars, workerVars, history
<1>1. /\ UNCHANGED <<client, file>> /\ (lame => lame')
      /\ pending' = <<>> /\ queue' = <<>> /\ batch' = <<>> /\ inflight' = NoEpoch
      /\ worker' = "stopped"
  BY DEF SubmissionFails, RepairSync, RepairFails, Returns
<1>2. Commands' = <<>>
  BY <1>1, CommandsGone
<1>3. /\ batch \in Seq(Clients) /\ inflight.clients \in Seq(Clients)
      /\ file \in Seq(JournalRecord) /\ fileLen \in Nat
  BY DEF Flow, FlowTyped, WorkerTyped, FileTyped, EpochBatch
<1>4. ToSet(batch) \subseteq ToSet(admitted) /\ ToSet(inflight.clients) \subseteq ToSet(admitted)
  BY DEF Ordered, Admitted, Upcoming
<1>5. CASE SubmissionFails
  <2>1. receipt' = Refused(batch) /\ disk' = disk
    BY <1>5 DEF SubmissionFails, Returns
  <2>2. \A c \in ToSet(batch) : c \notin ClientsOf(file') \cup ClientsOf(disk')
    BY <1>1, <2>1 DEF Receipts, Unwritten, Waiting
  <2> QED BY <1>1, <1>2, <1>3, <1>4, <2>1, <2>2, RefusedReceipts
<1>6. CASE RepairSync
  <2>1. receipt' = Refused(inflight.clients) /\ disk' = file /\ worker = "repairsync"
    BY <1>6 DEF RepairSync, Returns
  <2>2. Settled = file
    <3>1. Len(file) = fileLen
      BY <2>1 DEF Shape, Writing
    <3> QED BY <1>3, <3>1, SubSeqFull DEF Settled
  <2>3. \A c \in ToSet(inflight.clients) : c \notin ClientsOf(file') \cup ClientsOf(disk')
    BY <1>1, <2>1, <2>2, LineDistinct
  <2> QED BY <1>1, <1>2, <1>3, <1>4, <2>1, <2>3, RefusedReceipts
<1>7. CASE RepairFails
  <2>1. receipt' = Refused(inflight.clients) /\ lame' = TRUE
    BY <1>7 DEF RepairFails, Returns
  <2>2. \A c \in ToSet(inflight.clients) : lame' \/ c \notin ClientsOf(file') \cup ClientsOf(disk')
    BY <2>1
  <2> QED BY <1>1, <1>2, <1>3, <1>4, <2>1, <2>2, RefusedReceipts
<1> QED BY <1>5, <1>6, <1>7

\* The write is complete: its clients get the receipts of their places.
LEMMA NotifiedReceipts ==
    ASSUME Flow, Shape, Ordered, Receipts, Keeps,
           receipt' = Notified(inflight), kernel = "synced", UNCHANGED <<file, disk, client, lame>>,
           fileLen' = fileLen + 1, Upcoming' \subseteq Waiting, Waiting' \subseteq Waiting,
           Notices'
    PROVE  Receipts'
<1>1. /\ receipt' \in [Clients -> {None, Err} \cup (Nat \X Nat)]
      /\ \A p \in 1..Len(inflight.clients) : receipt'[inflight.clients[p]] = <<inflight.id, p>>
      /\ \A c \in Clients : c \notin ToSet(inflight.clients) => receipt'[c] = receipt[c]
  BY NotifiedFacts DEF Receipts
<1>2. /\ inflight.clients \in Seq(Clients) /\ inflight \in EpochBatch /\ fileLen \in Nat
      /\ inflight.id = fileLen + 1 /\ Len(file) = fileLen + 1 /\ disk = file
      /\ file[fileLen + 1] = Record(inflight) /\ Len(inflight.clients) \in Nat
  BY LenProperties DEF Flow, FlowTyped, WorkerTyped, FileTyped, EpochBatch, Phases, Offset,
     Shape, Writing
<1>3. /\ \A c \in ToSet(inflight.clients) :
           \E p \in 1..Len(inflight.clients) : inflight.clients[p] = c
      /\ ToSet(inflight.clients) \subseteq Clients
  BY <1>2, ToSetFacts
<1>4. ReceiptsTyped'
  BY <1>1 DEF ReceiptsTyped
<1>5. Certificates'
  <2> SUFFICES ASSUME NEW c \in Clients, Certified(c)'  PROVE Certificate(c)'
    BY DEF Certificates
  <2>1. CASE c \in ToSet(inflight.clients)
    <3>1. PICK p \in 1..Len(inflight.clients) : inflight.clients[p] = c
      BY <1>3, <2>1
    <3>2. receipt'[c] = <<fileLen + 1, p>>
      BY <1>1, <1>2, <3>1
    <3>3. receipt'[c][1] = fileLen + 1 /\ receipt'[c][2] = p
      BY <3>2, PairFacts
    <3>4. file[fileLen + 1].whole = TRUE /\ file[fileLen + 1].clients = inflight.clients
      BY <1>2, RecordFields
    <3>5. /\ fileLen + 1 \in 1..Len(file') /\ fileLen + 1 <= Len(disk')
          /\ \A j \in 1..(fileLen + 1) : file'[j] = disk'[j]
          /\ file'[fileLen + 1].whole /\ fileLen + 1 <= fileLen'
      BY <1>2, <3>4
    <3>6. Secured(receipt[c][1])'
      BY <3>3, <3>5 DEF Secured
    <3> QED BY <3>1, <3>3, <3>4, <3>6 DEF Certificate
  <2>2. CASE c \notin ToSet(inflight.clients)
    <3>1. Certified(c) /\ receipt'[c] = receipt[c]
      BY <1>1, <2>2 DEF Certified
    <3> QED BY <3>1, CertificateKept
  <2> QED BY <2>1, <2>2
<1>6. \A c \in ToSet(inflight.clients) : receipt'[c] # Err
  <2> TAKE c \in ToSet(inflight.clients)
  <2>1. PICK p \in 1..Len(inflight.clients) : inflight.clients[p] = c
    BY <1>3
  <2>2. receipt'[c] = <<inflight.id, p>> /\ <<inflight.id, p>> # Err
    BY <1>1, <2>1, PairFacts
  <2> QED BY <2>2
<1>7. Refusals'
  BY <1>1, <1>6 DEF Receipts, Refusals
<1>8. Unanswered'
  <2>1. \A c \in ToSet(inflight.clients) : client[c] = "ticket"
    BY <1>3 DEF Ordered, Admitted, Upcoming
  <2>2. \A c \in Waiting : receipt[c] = None /\ c \notin ToSet(inflight.clients) /\ c \in Clients
    <3>1. Waiting \subseteq Upcoming
      BY DEF Waiting, Upcoming
    <3>2. Upcoming \subseteq Clients
      BY ToSetFacts DEF Ordered, Admitted
    <3> QED BY <3>1, <3>2, LineDistinct DEF Receipts, Unanswered
  <2> QED BY <1>1, <2>1, <2>2 DEF Receipts, Unanswered
<1>9. Unwritten'
  BY DEF Receipts, Unwritten
<1> QED BY <1>4, <1>5, <1>7, <1>8, <1>9 DEF Receipts

LEMMA CompleteReceipts ==
    ASSUME Flow, Shape, Ordered, Receipts, Keeps, Complete \/ CompleteDoomed
    PROVE  Receipts'
<1> USE DEF storage, images, ingress, answers, callerVars, workerVars, history
<1>1. /\ receipt' = Notified(inflight) /\ kernel = "synced"
      /\ UNCHANGED <<file, disk, client, lame>> /\ fileLen' = fileLen + 1
      /\ inflight' = NoEpoch
  BY DEF Complete, CompleteDoomed, Returns
<1>2. ToSet(<<>>) = {} /\ ClientsOf(<<>>) = {} /\ NoEpoch.clients = <<>>
  BY ToSetEmpty, ClientsOfEmpty DEF NoEpoch
<1>3. CASE CompleteDoomed
  <2>1. batch' = <<>> /\ pending' = <<>> /\ queue' = <<>> /\ worker' = "stopped"
    BY <1>3 DEF CompleteDoomed, Returns
  <2>2. Commands' = <<>> /\ ~Receiving'
    BY <2>1, CommandsGone DEF Receiving
  <2>3. Upcoming' = {} /\ Waiting' = {} /\ Notices'
    BY <1>1, <1>2, <2>1, <2>2 DEF Upcoming, Waiting, Notices
  <2> QED BY <1>1, <2>3, NotifiedReceipts
<1>4. CASE Complete
  <2>1. UNCHANGED <<batch, pending, queue, appliedEpochs, doomed>> /\ Receiving
    BY <1>4 DEF Complete, Receiving, Alive
  <2>2. Upcoming' = Waiting /\ Waiting' = Waiting
    BY <1>1, <1>2, <2>1, CommandsSame DEF Upcoming, Waiting
  <2>3. /\ inflight \in EpochBatch /\ fileLen \in Nat /\ appliedEpochs \in Nat
        /\ inflight.id = fileLen + 1 /\ Len(file) = fileLen + 1
        /\ file[fileLen + 1] = Record(inflight) /\ file \in Seq(JournalRecord)
    BY <1>1 DEF Flow, FlowTyped, WorkerTyped, FileTyped, Phases, Offset, Shape, Writing,
       StorageTyped
  <2>4. file[fileLen + 1].clients = inflight.clients
    BY <2>3, RecordFields
  <2>5. /\ \A p \in 1..Len(inflight.clients) : receipt'[inflight.clients[p]] = <<inflight.id, p>>
        /\ \A c \in Clients : c \notin ToSet(inflight.clients) => receipt'[c] = receipt[c]
    BY <1>1, NotifiedFacts DEF Receipts
  <2>6. Notices'
    <3>1. ASSUME NEW a \in Nat, NEW n \in Nat, NEW j \in (a + 1)..(n + 1)
          PROVE  j = n + 1 \/ (j \in (a + 1)..n /\ j \in 1..(n + 1))
      BY <3>1
    <3> SUFFICES ASSUME ~doomed, NEW k \in (appliedEpochs + 1)..(fileLen + 1),
                        NEW p \in 1..Len(file[k].clients)
                 PROVE  receipt'[file[k].clients[p]] = <<k, p>>
      BY <1>1, <2>1 DEF Notices
    <3>2. k = fileLen + 1 \/ (k \in (appliedEpochs + 1)..fileLen /\ k \in 1..(fileLen + 1))
      BY <2>3, <3>1
    <3>3. CASE k = fileLen + 1
      BY <2>3, <2>4, <2>5, <3>3
    <3>4. CASE k \in (appliedEpochs + 1)..fileLen /\ k \in 1..(fileLen + 1)
      <4>1. receipt[file[k].clients[p]] = <<k, p>>
        BY <2>1, <3>4 DEF Receipts, Notices
      <4>2. file[k].clients \in Seq(Clients)
        <5>1. file[k] \in JournalRecord
          BY <2>3, <3>4, ElementOfSeq
        <5> QED BY <5>1 DEF JournalRecord
      <4>3. file[k].clients[p] \in Clients
        BY <4>2, ElementOfSeq
      <4>4. file[k].clients[p] \notin ToSet(inflight.clients)
        <5>1. <<k, p>> # None
          BY PairFacts
        <5> QED BY <4>1, <5>1 DEF Receipts, Unanswered, Upcoming
      <4> QED BY <2>5, <4>1, <4>3, <4>4
    <3> QED BY <3>2, <3>3, <3>4
  <2> QED BY <1>1, <2>2, <2>6, NotifiedReceipts
<1> QED BY <1>3, <1>4

LEMMA NextReceipts ==
    ASSUME Flow, Flow', Shape, Shape', Ordered, Receipts, [Next]_vars, ~misled'
    PROVE  Receipts'
<1>1. StorageMoves /\ Keeps /\ OnlyInflight
  BY StepMoves, MovesKeep, MovesOnlyInflight
<1>2. CASE Open
  BY <1>1, <1>2, OpenReceipts
<1>3. CASE Users \/ Caller
  BY <1>1, <1>3, UsersReceipts, TurnsReceipts DEF Users, Caller
<1>4. CASE Worker \/ Failure
  BY <1>1, <1>4, TurnsReceipts, CompleteReceipts, FailureReceipts, LostReceipts
     DEF Worker, Failure
<1>5. CASE Snapshot \/ Kernel \/ Writeback \/ UNCHANGED vars
  BY <1>1, <1>5, TurnsReceipts
<1>6. CASE ProcessExit \/ PowerLoss
  BY <1>1, <1>6, LostReceipts
<1> QED BY <1>2, <1>3, <1>4, <1>5, <1>6 DEF Next

-----------------------------------------------------------------------------
(* The published world and the verdicts.                                     *)

LEMMA SamePrefix ==
    ASSUME NEW f \in Seq(JournalRecord), NEW g \in Seq(JournalRecord), NEW n \in Nat,
           n <= Len(f), n <= Len(g), \A k \in 1..n : f[k] = g[k]
    PROVE  SubSeq(f, 1, n) = SubSeq(g, 1, n)
<1> DEFINE s == SubSeq(f, 1, n)
           t == SubSeq(g, 1, n)
<1>1. /\ s \in Seq(JournalRecord) /\ Len(s) = n /\ \A k \in 1..n : s[k] = f[k]
      /\ t \in Seq(JournalRecord) /\ Len(t) = n /\ \A k \in 1..n : t[k] = g[k]
  BY PrefixFacts
<1> HIDE DEF s, t
<1>2. s = t
  BY <1>1, SeqEqual
<1> QED BY <1>2 DEF s, t

\* Nobody's receipt changes once it is proper.
LEMMA ReceiptsStay ==
    ASSUME Flow, Ordered, Receipts, [Next]_vars, NEW c \in Clients, Certified(c)
    PROVE  receipt'[c] = receipt[c]
<1> USE DEF storage, images, ingress, answers, callerVars, workerVars, history
<1>1. receipt[c] # None
  BY DEF Certified
<1>2. c \notin ToSet(batch) /\ c \notin ToSet(inflight.clients)
  BY <1>1 DEF Receipts, Unanswered, Upcoming
<1>3. Refused(batch)[c] = receipt[c] /\ Refused(inflight.clients)[c] = receipt[c]
  BY <1>2 DEF Refused
<1>4. Notified(inflight)[c] = receipt[c]
  BY <1>2, NotifiedFacts DEF Receipts
<1>5. CASE Worker \/ Failure
  BY <1>3, <1>4, <1>5 DEF Worker, Failure, TakeCommand, NoCommand, Claim, ClaimSetsAside,
     ClaimEnds, SubmitAdmission, Complete, CompleteDoomed, RepairTruncate, RepairSync,
     PopDurable, Materialize, MaterializePanics, MaterializePanicsFirst, AnswerBarrier,
     WorkerEnds, SubmissionFails, CompleteFails, RepairFails, Returns
<1>6. CASE Open \/ Users \/ Caller \/ Snapshot
  BY <1>6 DEF Open, OpenFromImage, OpenClean, OpenTruncate, OpenSync, Replay, Started, Users,
     Submit, SubmitEpoch, Send, Shutdown, Caller, FlushLock, FlushSend, FlushReturns,
     FlushStopped, Snapshot, CallEnds, SnapshotWorld, SnapshotJournal, SnapshotRename,
     SnapshotSync
<1>7. CASE Kernel \/ Writeback \/ ProcessExit \/ PowerLoss \/ UNCHANGED vars
  BY <1>7 DEF Kernel, KernelWritesPart, KernelWrites, KernelSyncs, Writeback, ProcessExit,
     PowerLoss, Crash, vars
<1> QED BY <1>5, <1>6, <1>7 DEF Next

\* Only materialize decides.
LEMMA OutcomesStay ==
    ASSUME Flow, [Next]_vars, ~Materialize, NEW c \in Clients,
           outcome'[c] \in {"Accepted", "Rejected"}
    PROVE  outcome'[c] = outcome[c]
<1> USE DEF storage, images, ingress, answers, callerVars, workerVars, history
<1>1. ASSUME NEW receipts, NEW failed, Returns(receipts, failed)
      PROVE  outcome'[c] = outcome[c]
  BY <1>1 DEF Returns
<1>2. CASE Worker \/ Failure
  <2>1. CASE \/ SubmissionFails \/ CompleteDoomed \/ RepairSync \/ RepairFails
             \/ MaterializePanics \/ WorkerEnds
    BY <1>1, <2>1 DEF SubmissionFails, CompleteDoomed, RepairSync, RepairFails,
       MaterializePanics, WorkerEnds
  <2>2. CASE MaterializePanicsFirst
    BY <2>2 DEF MaterializePanicsFirst
  <2>3. CASE \/ TakeCommand \/ NoCommand \/ Claim \/ ClaimSetsAside \/ ClaimEnds
             \/ SubmitAdmission \/ Complete \/ RepairTruncate \/ PopDurable \/ AnswerBarrier
             \/ CompleteFails
    BY <2>3 DEF TakeCommand, NoCommand, Claim, ClaimSetsAside, ClaimEnds, SubmitAdmission,
       Complete, RepairTruncate, PopDurable, AnswerBarrier, CompleteFails
  <2> QED BY <1>2, <2>1, <2>2, <2>3 DEF Worker, Failure
<1>3. CASE Open \/ Users \/ Caller \/ Snapshot
  BY <1>3 DEF Open, OpenFromImage, OpenClean, OpenTruncate, OpenSync, Replay, Started, Users,
     Submit, SubmitEpoch, Send, Shutdown, Caller, FlushLock, FlushSend, FlushReturns,
     FlushStopped, Snapshot, CallEnds, SnapshotWorld, SnapshotJournal, SnapshotRename,
     SnapshotSync
<1>4. CASE Kernel \/ Writeback \/ UNCHANGED vars
  BY <1>4 DEF Kernel, KernelWritesPart, KernelWrites, KernelSyncs, Writeback, vars
<1>5. CASE ProcessExit \/ PowerLoss
  BY <1>5 DEF ProcessExit, PowerLoss, Crash
<1> QED BY <1>2, <1>3, <1>4, <1>5 DEF Next

\* A verdict depends on the certified part of the journal only.
LEMMA JudgedKept ==
    ASSUME Flow, Flow', Receipts, Judged, Keeps, NEW c \in Clients,
           outcome'[c] = outcome[c], outcome[c] \in {"Accepted", "Rejected"},
           Certified(c) => receipt'[c] = receipt[c]
    PROVE  /\ Certified(c)'
           /\ outcome'[c] = "Accepted" <=>
                 c \in Facts(Projection(SubSeq(file', 1, receipt'[c][1])))
<1>1. Certified(c) /\ receipt'[c] = receipt[c]
      /\ (outcome[c] = "Accepted" <=> c \in Facts(Projection(SubSeq(file, 1, receipt[c][1]))))
  BY DEF Judged
<1>2. receipt[c][1] \in Nat
  BY <1>1 DEF Certified, Receipts, ReceiptsTyped
<1>3. PICK e \in Nat : e = receipt[c][1]
  BY <1>2
<1>4. Secured(e)
  BY <1>1, <1>3 DEF Receipts, Certificates, Certificate
<1>5. Secured(e)' /\ \A j \in 1..e : file'[j] = file[j]
  BY <1>4 DEF Keeps
<1>6. /\ file \in Seq(JournalRecord) /\ file' \in Seq(JournalRecord)
      /\ e <= Len(file) /\ e <= Len(file')
  BY <1>4, <1>5 DEF Secured, Flow, FlowTyped, FileTyped
<1>7. SubSeq(file', 1, e) = SubSeq(file, 1, e)
  BY <1>5, <1>6, SamePrefix
<1> QED BY <1>1, <1>3, <1>7 DEF Certified

\* Steps that publish nothing.
LEMMA WorldKept ==
    ASSUME Flow, Flow', Shape, Shape', JournalIsAuthoritative, StorageMoves,
           Alive' => Alive /\ UNCHANGED <<appliedEpochs, current>>
    PROVE  JournalIsAuthoritative'
<1> SUFFICES ASSUME Alive'  PROVE current' = Projection(SubSeq(file', 1, appliedEpochs'))
  BY DEF JournalIsAuthoritative
<1>1. /\ Alive /\ UNCHANGED <<appliedEpochs, current>>
      /\ current = Projection(SubSeq(file, 1, appliedEpochs))
      /\ appliedEpochs \in Nat /\ fileLen \in Nat /\ appliedEpochs <= fileLen
      /\ file \in Seq(JournalRecord) /\ file' \in Seq(JournalRecord)
      /\ fileLen <= Len(file) /\ Len(file) \in Nat /\ Len(file') \in Nat
      /\ appliedEpochs' <= fileLen' /\ fileLen' <= Len(file') /\ fileLen' \in Nat
  BY LenProperties DEF JournalIsAuthoritative, Flow, FlowTyped, FileTyped, Offset, Shape,
     StorageTyped,
     Durable
<1>2. \A k \in 1..fileLen : file'[k] = file[k]
  BY <1>1, MovesSettled
<1>3. appliedEpochs <= Len(file) /\ appliedEpochs <= Len(file')
  BY <1>1
<1>4. \A k \in 1..appliedEpochs : file'[k] = file[k]
  BY <1>1, <1>2
<1>5. SubSeq(file', 1, appliedEpochs) = SubSeq(file, 1, appliedEpochs)
  BY <1>1, <1>3, <1>4, SamePrefix
<1> QED BY <1>1, <1>5

LEMMA InitVerdicts == Init => Verdicts
<1> SUFFICES ASSUME Init  PROVE Verdicts
  OBVIOUS
<1>1. JournalIsAuthoritative /\ Judged
  BY DEF Init, JournalIsAuthoritative, Alive, Judged
<1>2. ImageWorlds
  BY DEF Init, ImageWorlds, NoImage
<1> QED BY <1>1, <1>2 DEF Verdicts

\* A snapshot is of the world its journal projects to.
LEMMA SnapshotWorlds ==
    ASSUME Flow, Shape, JournalIsAuthoritative, ImageWorlds, Snapshot
    PROVE  ImageWorlds'
<1> USE DEF storage, images, ingress, answers, callerVars, workerVars, history
<1>1. taken \in ImageType /\ image \in ImageType /\ UNCHANGED current
  BY DEF Shape, StorageTyped, Snapshot, CallEnds, SnapshotWorld, SnapshotJournal,
     SnapshotRename, SnapshotSync
<1>2. CASE CallEnds \/ SnapshotSync
  BY <1>2 DEF CallEnds, SnapshotSync, ImageWorlds
<1>3. CASE SnapshotWorld
  <2>1. taken'.world = current
    BY <1>3 DEF SnapshotWorld, NoImage
  <2> QED BY <1>1, <1>3, <2>1 DEF SnapshotWorld, ImageWorlds
<1>4. CASE SnapshotJournal
  <2>1. taken'.world = taken.world
    BY <1>1, <1>4 DEF SnapshotJournal, ImageType
  <2> QED BY <1>1, <1>4, <2>1 DEF SnapshotJournal, ImageWorlds
<1>5. CASE SnapshotRename
  <2>1. image'.world = taken.world /\ image'.journal = taken.journal /\ image'.quiet = ~raced
    BY <1>1, <1>5 DEF SnapshotRename, ImageType
  <2>2. ~raced => /\ taken.world = current /\ taken.journal = file /\ Alive
                  /\ appliedEpochs = Len(file)
    BY <1>5 DEF SnapshotRename, ImageWorlds, Shape, Images, Snapshotting, Flow, Barriers
  <2>3. SubSeq(file, 1, Len(file)) = file
    BY SubSeqFull DEF Flow, FlowTyped, FileTyped
  <2>4. ~raced => taken.world = Projection(taken.journal)
    BY <2>2, <2>3 DEF JournalIsAuthoritative
  <2> QED BY <1>5, <2>1, <2>4 DEF SnapshotRename, ImageWorlds
<1> QED BY <1>2, <1>3, <1>4, <1>5 DEF Snapshot

LEMMA NextImageWorlds ==
    ASSUME Flow, Shape, JournalIsAuthoritative, ImageWorlds, [Next]_vars
    PROVE  ImageWorlds'
<1> USE DEF storage, images, ingress, answers, callerVars, workerVars, history
<1>1. ASSUME image' \in {image, diskImage}, diskImage' \in {image, diskImage},
             caller' \in {"world", "journal"} /\ ~raced' =>
                 UNCHANGED <<caller, taken, current, raced>>
      PROVE  ImageWorlds'
  BY <1>1 DEF ImageWorlds
<1>2. CASE Snapshot
  BY <1>2, SnapshotWorlds
<1>3. CASE Open
  <2>1. UNCHANGED <<image, diskImage, caller, taken>> /\ ~Alive
    BY <1>3 DEF Open, OpenFromImage, OpenClean, OpenTruncate, OpenSync, Replay, Started, Alive
  <2>2. caller = "idle"
    BY <2>1 DEF Flow, Barriers
  <2> QED BY <1>1, <2>1, <2>2
<1>4. CASE Users \/ Caller
  BY <1>1, <1>4 DEF Users, Submit, SubmitEpoch, Send, Shutdown, Caller, FlushLock, FlushSend,
     FlushReturns, FlushStopped, Snapshotting
<1>5. CASE Materialize
  <2>1. ~(caller' \in {"world", "journal"} /\ ~raced') /\ UNCHANGED <<image, diskImage>>
    BY <1>5 DEF Materialize, Flow, Idle, Snapshotting
  <2> QED BY <1>1, <2>1
<1>6. CASE (Worker \/ Failure) /\ ~Materialize
  BY <1>1, <1>6 DEF Worker, Failure, TakeCommand, NoCommand, Claim, ClaimSetsAside,
     ClaimEnds, SubmitAdmission, Complete, CompleteDoomed, RepairTruncate, RepairSync,
     PopDurable, MaterializePanics, MaterializePanicsFirst, AnswerBarrier,
     WorkerEnds, SubmissionFails, CompleteFails, RepairFails, Returns
<1>7. CASE Kernel \/ Writeback \/ UNCHANGED vars
  BY <1>1, <1>7 DEF Kernel, KernelWritesPart, KernelWrites, KernelSyncs, Writeback, vars
<1>8. CASE ProcessExit \/ PowerLoss
  BY <1>1, <1>8 DEF ProcessExit, PowerLoss, Crash
<1> QED BY <1>2, <1>3, <1>4, <1>5, <1>6, <1>7, <1>8 DEF Next

\* A recovered world: replayed, or from a quiet image of exactly this journal.
LEMMA OpenWorld ==
    ASSUME Flow, Shape, ImageWorlds, OpenFromImage \/ Replay, ~misled'
    PROVE  JournalIsAuthoritative'
<1> USE DEF storage
<1>1. file \in Seq(JournalRecord) /\ file' = file
  BY DEF Flow, FlowTyped, FileTyped, OpenFromImage, Replay
<1>2. SubSeq(file, 1, Len(file)) = file
  BY <1>1, SubSeqFull
<1>3. appliedEpochs' = Len(file) /\ current' = Projection(file)
  <2>1. image.valid /\ image.quiet /\ image.journal = file =>
           image.count = Len(file) /\ image.world = Projection(file)
    BY DEF Shape, Images, GoodImage, ImageWorlds
  <2> QED BY <2>1 DEF OpenFromImage, ImageMatches, Replay, Started
<1> QED BY <1>1, <1>2, <1>3 DEF JournalIsAuthoritative

\* materialize: the next world is the projection of one more epoch, and the
\* verdicts are its own.
LEMMA MaterializeVerdicts ==
    ASSUME Flow, Flow', Shape, Ordered, Receipts, JournalIsAuthoritative, Judged, Keeps, Materialize
    PROVE  JournalIsAuthoritative' /\ Judged'
<1> USE DEF storage, images, ingress, callerVars, workerVars, history
<1> DEFINE n == appliedEpochs
           plan == Plan(current, held.clients)
           past == Projection(SubSeq(file, 1, n))
           next == Projection(SubSeq(file, 1, n + 1))
<1>1. /\ UNCHANGED <<file, disk, receipt>> /\ appliedEpochs' = n + 1
      /\ current' = WorldAfter(current, held.clients) /\ worker = "materialize"
      /\ \A c \in Clients : outcome'[c] =
            IF c \notin ToSet(held.clients) THEN outcome[c]
            ELSE IF c \in ToSet(plan) THEN "Accepted" ELSE "Rejected"
  BY DEF Materialize
<1>2. /\ Alive /\ Receiving /\ ~doomed /\ held # NoEpoch /\ held \in EpochBatch
      /\ n \in Nat /\ fileLen \in Nat /\ file \in Seq(JournalRecord)
      /\ fileLen <= Len(file) /\ Len(file) \in Nat /\ FlowTyped
      /\ held.clients \in Seq(Clients) /\ current \in Seq(Seq(Clients))
  BY <1>1, LenProperties DEF Flow, FlowTyped, WorkerTyped, FileTyped, Phases, Offset, Shape,
     StorageTyped, Alive, Receiving, EpochBatch
<1>3. n + 1 <= fileLen /\ n < Len(file) /\ file[n + 1].clients = held.clients
  <2>1. Len(backlog) \in Nat /\ Len(Unapplied) = Len(backlog) + 1 /\ Unapplied[1] = held
    BY <1>2, UnappliedFacts, LenProperties DEF FlowTyped, WorkerTyped
  <2>2. /\ n + Len(Unapplied) = fileLen
        /\ \A i \in 1..Len(Unapplied) : file[n + i] = Record(Unapplied[i])
    BY <1>2 DEF Shape, Aligned
  <2>3. 1 \in 1..Len(Unapplied) /\ n + 1 <= fileLen /\ n < Len(file)
    BY <1>2, <2>1, <2>2
  <2>4. file[n + 1] = Record(held)
    BY <2>1, <2>2, <2>3
  <2> QED BY <1>2, <2>3, <2>4, RecordFields
<1>4. current = past
  BY <1>2 DEF JournalIsAuthoritative
<1>5. past \in Seq(Seq(Clients)) /\ next = WorldAfter(past, file[n + 1].clients)
  BY <1>2, <1>3, ProjectionStep
<1>6. current' = next
  BY <1>1, <1>3, <1>4, <1>5
<1>7. JournalIsAuthoritative'
  BY <1>1, <1>6 DEF JournalIsAuthoritative
<1>8. Facts(next) = Facts(current) \cup ToSet(plan)
  <2>1. Facts(WorldAfter(current, held.clients)) = Facts(current) \cup ToSet(plan)
    BY <1>2, WorldAfterFacts
  <2> QED BY <1>1, <1>6, <2>1
<1>9. \A c \in Facts(current) : \E i \in 1..n : c \in ToSet(file[i].clients)
  <2>1. SubSeq(file, 1, 0) = <<>>
    BY <1>2, SubSeqEmpty
  <2>2. Facts(Projection(<<>>)) = {}
    <3>1. Projection(<<>>) = <<>>
      BY <1>2, ProjectionTyped
    <3>2. Facts(<<>>) = {}
      BY DEF Facts
    <3> QED BY <3>1, <3>2
  <2>3. 0 \in Nat /\ 0 <= n /\ n <= Len(file) /\ (0 + 1)..n = 1..n
    BY <1>2, <1>3
  <2>4. \A c \in Facts(past) :
           c \in Facts(Projection(SubSeq(file, 1, 0))) \/ \E i \in (0 + 1)..n : c \in ToSet(file[i].clients)
    BY <1>2, <2>3, ProjectionGrows
  <2> QED BY <1>4, <2>1, <2>2, <2>3, <2>4
<1> HIDE DEF n, plan, past, next
<1>10. ASSUME NEW c \in ToSet(held.clients)
       PROVE  /\ c \notin Facts(current)
              /\ \E p \in 1..Len(held.clients) : held.clients[p] = c /\ receipt[c] = <<n + 1, p>>
  <2>1. c \notin Facts(current)
    <3> SUFFICES ASSUME NEW i \in 1..n, c \in ToSet(file[i].clients)  PROVE FALSE
      BY <1>9
    <3>1. DOMAIN file = 1..Len(file)
      BY <1>2, LenProperties
    <3>2. i \in DOMAIN file /\ n + 1 \in DOMAIN file /\ i < n + 1
      BY <1>2, <1>3, <3>1
    <3>3. Precedes(c, c)
      BY <1>3, <3>2 DEF Ordered, Sequenced, InOrder, Apart
    <3>4. PICK x \in DOMAIN admitted, y \in DOMAIN admitted :
              x < y /\ admitted[x] = c /\ admitted[y] = c
      BY <3>3 DEF Precedes
    <3>5. DOMAIN admitted = 1..Len(admitted) /\ Len(admitted) \in Nat
      BY LenProperties DEF Ordered, Admitted
    <3>6. x = y
      BY <3>4, <3>5 DEF Ordered, Admitted
    <3> QED BY <3>4, <3>5, <3>6
  <2>2. PICK p \in 1..Len(held.clients) : held.clients[p] = c
    BY <1>2, ToSetFacts
  <2>3. n + 1 \in (n + 1)..fileLen
    BY <1>2, <1>3
  <2>4. receipt[c] = <<n + 1, p>>
    BY <1>2, <1>3, <2>2, <2>3 DEF Receipts, Notices, n
  <2> QED BY <2>1, <2>2, <2>4
<1>11. Judged'
  <2> SUFFICES ASSUME NEW c \in Clients, outcome'[c] \in {"Accepted", "Rejected"}
               PROVE  /\ Certified(c)'
                      /\ outcome'[c] = "Accepted" <=>
                            c \in Facts(Projection(SubSeq(file', 1, receipt'[c][1])))
    BY DEF Judged
  <2>1. CASE c \notin ToSet(held.clients)
    BY <1>1, <2>1, JudgedKept
  <2>2. CASE c \in ToSet(held.clients)
    <3>1. PICK p \in 1..Len(held.clients) : receipt[c] = <<n + 1, p>>
      BY <1>10, <2>2
    <3>2. receipt'[c] = <<n + 1, p>>
      BY <1>1, <3>1
    <3>3. Certified(c)' /\ receipt'[c][1] = n + 1
      BY <3>2, PairFacts DEF Certified
    <3>4. outcome'[c] = "Accepted" <=> c \in ToSet(plan)
      BY <1>1, <2>2
    <3>5. c \in Facts(next) <=> c \in ToSet(plan)
      BY <1>8, <1>10, <2>2
    <3>6. next = Projection(SubSeq(file', 1, n + 1))
      BY <1>1 DEF next
    <3> QED BY <3>3, <3>4, <3>5, <3>6
  <2> QED BY <2>1, <2>2
<1> QED BY <1>7, <1>11

LEMMA NextVerdicts ==
    ASSUME Flow, Flow', Shape, Shape', Ordered, Receipts, Verdicts, [Next]_vars, ~misled'
    PROVE  Verdicts'
<1> USE DEF storage, images, ingress, answers, callerVars, workerVars, history
<1>1. StorageMoves /\ Keeps
  BY StepMoves, MovesKeep
<1>2. JournalIsAuthoritative /\ Judged /\ ImageWorlds
  BY DEF Verdicts
<1>3. ImageWorlds'
  BY <1>2, NextImageWorlds
<1>4. CASE Materialize
  BY <1>1, <1>2, <1>3, <1>4, MaterializeVerdicts DEF Verdicts
<1>5. CASE ~Materialize
  <2>1. Judged'
    <3> SUFFICES ASSUME NEW c \in Clients, outcome'[c] \in {"Accepted", "Rejected"}
                 PROVE  /\ Certified(c)'
                        /\ outcome'[c] = "Accepted" <=>
                              c \in Facts(Projection(SubSeq(file', 1, receipt'[c][1])))
      BY DEF Judged
    <3>1. outcome'[c] = outcome[c]
      BY <1>5, OutcomesStay
    <3>2. Certified(c) => receipt'[c] = receipt[c]
      BY ReceiptsStay
    <3> QED BY <1>1, <1>2, <3>1, <3>2, JudgedKept
  <2>2. JournalIsAuthoritative'
    <3>1. CASE OpenFromImage \/ Replay
      BY <1>2, <3>1, OpenWorld
    <3>2. CASE ~(OpenFromImage \/ Replay)
      <4>1. Alive' => Alive /\ UNCHANGED <<appliedEpochs, current>>
        <5>1. CASE OpenClean \/ OpenTruncate \/ OpenSync
          BY <5>1 DEF OpenClean, OpenTruncate, OpenSync, Alive
        <5>2. CASE Users \/ Caller \/ Snapshot
          BY <5>2 DEF Users, Submit, SubmitEpoch, Send, Shutdown, Caller, FlushLock, FlushSend,
             FlushReturns, FlushStopped, Snapshot, CallEnds, SnapshotWorld, SnapshotJournal,
             SnapshotRename, SnapshotSync, Alive
        <5>3. CASE Worker \/ Failure
          <6>1. UNCHANGED <<appliedEpochs, current>>
            BY <1>5, <5>3 DEF Worker, Failure, TakeCommand, NoCommand, Claim, ClaimSetsAside,
               ClaimEnds, SubmitAdmission, Complete, CompleteDoomed, RepairTruncate, RepairSync,
               PopDurable, MaterializePanics, MaterializePanicsFirst, AnswerBarrier,
               WorkerEnds, SubmissionFails, CompleteFails, RepairFails, Returns
          <6>2. Alive
            BY <5>3 DEF Worker, Failure, TakeCommand, NoCommand, Seeking, Claim, ClaimSetsAside,
               ClaimEnds, SubmitAdmission, Complete, CompleteDoomed, RepairTruncate, RepairSync,
               PopDurable, Materialize, MaterializePanics, MaterializePanicsFirst, Panics,
               AnswerBarrier, WorkerEnds, SubmissionFails, CompleteFails, RepairFails, Alive
          <6> QED BY <6>1, <6>2
        <5>4. CASE Kernel \/ Writeback \/ UNCHANGED vars
          BY <5>4 DEF Kernel, KernelWritesPart, KernelWrites, KernelSyncs, Writeback, vars, Alive
        <5>5. CASE ProcessExit \/ PowerLoss
          BY <5>5 DEF ProcessExit, PowerLoss, Crash, Alive
        <5> QED BY <3>2, <5>1, <5>2, <5>3, <5>4, <5>5 DEF Next, Open
      <4> QED BY <1>1, <1>2, <4>1, WorldKept
    <3> QED BY <3>1, <3>2
  <2> QED BY <1>3, <2>1, <2>2 DEF Verdicts
<1> QED BY <1>4, <1>5

-----------------------------------------------------------------------------
(* The theorems.  Only the flow of commands survives an open that adopted an *)
(* image whose snapshot was raced; nothing undoes `misled'.                  *)

LEMMA MisledStays ==
    ASSUME [Next]_vars, ~misled'
    PROVE  ~misled
<1> USE DEF history
<1>1. CASE Worker \/ Failure
  BY <1>1 DEF Worker, Failure, TakeCommand, NoCommand, Claim, ClaimSetsAside,
     ClaimEnds, SubmitAdmission, Complete, CompleteDoomed, RepairTruncate, RepairSync,
     PopDurable, Materialize, MaterializePanics, MaterializePanicsFirst, AnswerBarrier,
     WorkerEnds, SubmissionFails, CompleteFails, RepairFails, Returns
<1>2. CASE Open \/ Users \/ Caller \/ Snapshot
  BY <1>2 DEF Open, OpenFromImage, OpenClean, OpenTruncate, OpenSync, Replay, Users,
     Submit, SubmitEpoch, Send, Shutdown, Caller, FlushLock, FlushSend, FlushReturns,
     FlushStopped, Snapshot, CallEnds, SnapshotWorld, SnapshotJournal, SnapshotRename,
     SnapshotSync
<1>3. CASE Kernel \/ Writeback \/ ProcessExit \/ PowerLoss \/ UNCHANGED vars
  BY <1>3 DEF Kernel, KernelWritesPart, KernelWrites, KernelSyncs, Writeback, ProcessExit,
     PowerLoss, Crash, vars
<1> QED BY <1>1, <1>2, <1>3 DEF Next

\* What holds until open is misled.
Faithful == Shape /\ Ordered /\ Receipts /\ Verdicts

\* The five layers hold together.
LEMMA Inductive == Spec => [](Flow /\ (~misled => Faithful))
<1> DEFINE Inv == Flow /\ (~misled => Faithful)
<1>1. Init => Inv
  BY InitFlow, InitShape, InitOrdered, InitReceipts, InitVerdicts DEF Faithful
<1>2. Inv /\ [Next]_vars => Inv'
  <2> SUFFICES ASSUME Flow, ~misled => Faithful, [Next]_vars
               PROVE  Flow' /\ (~misled' => Faithful')
    OBVIOUS
  <2>1. Flow'
    BY NextFlow
  <2>2. ASSUME ~misled'  PROVE Faithful'
    <3>1. Shape /\ Ordered /\ Receipts /\ Verdicts
      BY <2>2, MisledStays DEF Faithful
    <3>2. Shape'
      BY <2>1, <2>2, <3>1, NextShape
    <3>3. Ordered'
      BY <2>1, <3>1, NextOrdered
    <3>4. Receipts'
      BY <2>1, <2>2, <3>1, <3>2, NextReceipts
    <3>5. Verdicts'
      BY <2>1, <2>2, <3>1, <3>2, NextVerdicts
    <3> QED BY <3>2, <3>3, <3>4, <3>5 DEF Faithful
  <2> QED BY <2>1, <2>2
<1> HIDE DEF Inv
<1>3. Spec => []Inv
  BY <1>1, <1>2, PTL DEF Spec
<1> QED BY <1>3 DEF Inv

\* Every admission receipt is for a record that is durable, whole and in its
\* place, on storage and on disk, whatever is submitted, fails and crashes
\* afterwards, and whatever images are taken, until open adopts one whose snapshot
\* was raced; a refused intent is until then in no journal a later open can find,
\* unless its repair failed.
THEOREM ReceiptsHold == Spec => []ReceiptsAreTruthful
<1>1. Flow /\ (~misled => Faithful) => ReceiptsAreTruthful
  <2> SUFFICES ASSUME Flow, Shape, Receipts, NEW c \in Clients, NEW f \in {file, disk}
               PROVE  /\ receipt[c] = Err => lame \/ c \notin ClientsOf(f)
                      /\ receipt[c] \notin {None, Err} =>
                          /\ receipt[c][1] <= Len(f) /\ f[receipt[c][1]].whole
                          /\ f[receipt[c][1]].id = receipt[c][1]
                          /\ receipt[c][2] <= Len(f[receipt[c][1]].clients)
                          /\ f[receipt[c][1]].clients[receipt[c][2]] = c
    BY DEF ReceiptsAreTruthful, Faithful
  <2>1. receipt[c] = Err => lame \/ c \notin ClientsOf(f)
    BY DEF Receipts, Refusals
  <2>2. ASSUME Certified(c)
        PROVE  /\ receipt[c][1] <= Len(f) /\ f[receipt[c][1]].whole
               /\ f[receipt[c][1]].id = receipt[c][1]
               /\ receipt[c][2] <= Len(f[receipt[c][1]].clients)
               /\ f[receipt[c][1]].clients[receipt[c][2]] = c
    <3>1. Certificate(c)
      BY <2>2 DEF Receipts, Certificates
    <3>2. PICK e : e = receipt[c][1]
      OBVIOUS
    <3>3. /\ e \in 1..Len(file) /\ e <= Len(disk) /\ file[e] = disk[e] /\ file[e].whole
          /\ receipt[c][2] \in 1..Len(file[e].clients) /\ file[e].clients[receipt[c][2]] = c
      BY <3>1, <3>2 DEF Certificate, Secured
    <3>4. file[e].id = e
      BY <3>3 DEF Shape, Recoverable, Readable
    <3>5. e <= Len(f) /\ f[e] = file[e]
      BY <3>3
    <3>6. receipt[c][2] <= Len(file[e].clients)
      BY <3>3
    <3> QED BY <3>2, <3>3, <3>4, <3>5, <3>6
  <2> QED BY <2>1, <2>2 DEF Certified
<1> QED BY <1>1, Inductive, PTL

\* recover_journal can read the journal after every failure and crash: only the
\* last record is torn, epoch numbers are consecutive, and the clients in it are
\* in the order in which they entered the channel, until open adopts an image whose
\* snapshot was raced.
THEOREM JournalStaysRecoverable == Spec => []JournalRecoverable
<1>1. Flow /\ (~misled => Faithful) => JournalRecoverable
  <2> SUFFICES ASSUME Flow, Shape, Ordered, NEW f \in {file, disk}
               PROVE  SoundJournal(f) /\ InOrder(f)
    BY DEF JournalRecoverable, Faithful
  <2>1. f \in Seq(JournalRecord) /\ Readable(f) /\ InOrder(f)
    BY DEF Flow, FlowTyped, FileTyped, Shape, Recoverable, Ordered, Sequenced
  <2>2. \A i \in 1..Len(GoodPrefix(f)) : i \in 1..Len(f)
    BY <2>1, GoodPrefixFacts, LenProperties
  <2> QED BY <2>1, <2>2 DEF Readable, SoundJournal
<1> QED BY <1>1, Inductive, PTL

\* The published world is the semantic projection of the applied prefix of the
\* journal: live, after a replay and after opening from a snapshot image, until open
\* adopts an image whose snapshot was raced.  An image that was not is good for
\* exactly its own journal, however long it lies there and whatever happens to the
\* file since.
THEOREM WorldsAreProjections == Spec => []WorldIsProjection
<1>1. (~misled => Faithful) => WorldIsProjection
  BY DEF WorldIsProjection, Faithful, Verdicts
<1> QED BY <1>1, Inductive, PTL

\* The verdict a ticket received is the one every later replay of the journal
\* reaches, on storage and on disk, whatever is appended to it, until open adopts
\* an image whose snapshot was raced.
THEOREM VerdictsHold == Spec => []VerdictsSurvive
<1>1. Flow /\ (~misled => Faithful) => VerdictsSurvive
  <2> SUFFICES ASSUME Flow, Ordered, Receipts, Verdicts, NEW c \in Clients, NEW f \in {file, disk},
                      outcome[c] \in {"Accepted", "Rejected"}
               PROVE  /\ c \in ClientsOf(GoodPrefix(f))
                      /\ outcome[c] = "Accepted" <=> c \in Facts(Projection(GoodPrefix(f)))
    BY DEF VerdictsSurvive, Faithful
  <2>1. /\ Certified(c) /\ Certificate(c)
        /\ outcome[c] = "Accepted" <=> c \in Facts(Projection(SubSeq(file, 1, receipt[c][1])))
    BY DEF Verdicts, Judged, Receipts, Certificates
  <2>2. PICK e : e = receipt[c][1]
    OBVIOUS
  <2>3. /\ e \in 1..Len(file) /\ e <= Len(disk) /\ \A j \in 1..e : file[j] = disk[j]
        /\ file[e].whole
        /\ receipt[c][2] \in 1..Len(file[e].clients) /\ file[e].clients[receipt[c][2]] = c
    BY <2>1, <2>2 DEF Certificate, Secured
  <2>4. /\ f \in Seq(JournalRecord) /\ file \in Seq(JournalRecord)
        /\ Len(f) \in Nat /\ Len(file) \in Nat /\ InOrder(f)
    BY LenProperties DEF Flow, FlowTyped, FileTyped, Ordered, Sequenced
  <2>5. /\ e \in Nat /\ e \in 1..Len(f) /\ e <= Len(file) /\ \A j \in 1..e : f[j] = file[j]
    BY <2>3, <2>4
  <2>6. f[e] = file[e] /\ e \in 1..e
    BY <2>3, <2>5
  <2> DEFINE g == GoodPrefix(f)
             n == Len(g)
  <2>7. /\ g \in Seq(JournalRecord) /\ n \in Nat /\ n <= Len(f) /\ Len(f) <= n + 1
        /\ \A i \in 1..n : g[i] = f[i]
        /\ n < Len(f) <=> TornTail(f)
        /\ g = SubSeq(f, 1, n)
    BY <2>4, GoodPrefixFacts
  <2> HIDE DEF g, n
  <2>8. e <= n
    <3>1. e = Len(f) => ~TornTail(f)
      BY <2>3, <2>6 DEF TornTail
    <3> QED BY <2>4, <2>5, <2>7, <3>1
  <2>9. f[e].clients \in Seq(Clients)
    <3>1. f[e] \in JournalRecord
      BY <2>4, <2>5, ElementOfSeq
    <3> QED BY <3>1 DEF JournalRecord
  <2>10. c \in ToSet(f[e].clients)
    BY <2>3, <2>6, <2>9, ToSetFacts
  <2>11. c \in ClientsOf(g)
    <3>1. e \in 1..n /\ n = Len(g) /\ g[e] = f[e]
      BY <2>5, <2>7, <2>8 DEF n
    <3> QED BY <2>7, <2>10, <3>1, ClientsOfFacts
  <2>12. SubSeq(file, 1, e) = SubSeq(f, 1, e)
    BY <2>4, <2>5, SamePrefix
  <2>13. ASSUME NEW i \in (e + 1)..n  PROVE c \notin ToSet(f[i].clients)
    <3> SUFFICES ASSUME c \in ToSet(f[i].clients)  PROVE FALSE
      OBVIOUS
    <3>1. DOMAIN f = 1..Len(f)
      BY <2>4, LenProperties
    <3>2. e \in DOMAIN f /\ i \in DOMAIN f /\ e < i
      BY <2>4, <2>5, <2>7, <3>1
    <3>3. Precedes(c, c)
      BY <2>4, <2>10, <3>2 DEF InOrder, Apart
    <3>4. PICK x \in DOMAIN admitted, y \in DOMAIN admitted :
              x < y /\ admitted[x] = c /\ admitted[y] = c
      BY <3>3 DEF Precedes
    <3>5. DOMAIN admitted = 1..Len(admitted) /\ Len(admitted) \in Nat
      BY LenProperties DEF Ordered, Admitted
    <3>6. x = y
      BY <3>4, <3>5 DEF Ordered, Admitted
    <3> QED BY <3>4, <3>5, <3>6
  <2>14. c \in Facts(Projection(SubSeq(f, 1, e))) <=> c \in Facts(Projection(SubSeq(f, 1, n)))
    BY <2>4, <2>5, <2>7, <2>8, <2>13, ProjectionGrows
  <2> QED BY <2>1, <2>2, <2>7, <2>11, <2>12, <2>14 DEF g
<1> QED BY <1>1, Inductive, PTL

=============================================================================
