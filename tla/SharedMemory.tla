---------------------------- MODULE SharedMemory ----------------------------
(***************************************************************************)
(* POSIX shared memory between a writer and its readers                    *)
(* (crates/eira-ipc/src/shm.rs): a segment under one name with a header    *)
(* (generation, ready flag, length and digest) and a payload that is       *)
(* rewritten in place.  Writers create, publish, drop their segment or die *)
(* at any step; readers open it with a descriptor that was handed to them  *)
(* at some earlier time.  Nobody takes a lock.                             *)
(*                                                                         *)
(* The payload is a few words, written and read one at a time, so a reader *)
(* may see the words of several payloads.  A digest is taken to determine  *)
(* its payload, and the length goes with the digest.                       *)
(***************************************************************************)
EXTENDS Integers

CONSTANTS
    Writer,         \* processes that own a writer
    Reader,         \* readers in any process
    Content,        \* payloads
    Zeros,          \* what a fresh segment holds
    Words,          \* words of a payload
    HalfWidth,      \* publications until the generation is back (2^31)
    MaxSegments,    \* bound: segments created
    MaxPublished    \* bound: publications of one segment

ASSUME ShmAssumption ==
    /\ Words \in Nat \ {0}
    /\ HalfWidth \in Nat \ {0}
    /\ MaxSegments \in Nat
    /\ MaxPublished \in Nat
    /\ Content # {} /\ Zeros \notin Content

VARIABLES
    name,       \* the segment the name stands for; 0 when there is none
    created,    \* segments created so far: 1..created
    form,       \* of each segment: "bare", "sized" or "headed"
    ready,      \* of each segment: the ready flag
    gen,        \* of each segment: the generation
    head,       \* of each segment: what length and digest belong to
    word,       \* of each segment: the payload each word comes from
    wpc,        \* where each writer is
    own,        \* the segment of each writer
    paper,      \* what each writer publishes
    wrote,      \* the words of it that are written
    rpc,        \* where each reader is
    desc,       \* the descriptor of each reader
    map,        \* the segment each reader has mapped
    snap,       \* the generation each reader found first
    readTo,     \* the words each reader has digested
    issued,     \* the descriptors handed out
    begun,      \* history: the publications begun on each segment
    since       \* history: begun, when the reader found its generation

segment == <<form, ready, gen, head, word, begun>>
writer  == <<wpc, own, paper, wrote, created, issued>>
reader  == <<rpc, desc, map, snap, readTo, since>>
vars    == <<name, segment, writer, reader>>

Segment    == 1..MaxSegments
Width      == 2 * HalfWidth
Generation == 0..(Width - 1)
Word       == 1..Words
Descriptor == [content : Content, generation : Generation]

AnyContent == CHOOSE c \in Content : TRUE
NoneYet    == [content |-> AnyContent, generation |-> 0]

\* Between create() and the end of publish() or drop.
WriterLabel == {"absent", "bare", "sized", "idle", "withdrawn", "writing",
                "written", "stable", "dropping"}
ReaderLabel == {"closed", "mapped", "ready", "header", "words", "again", "last",
                "open"}

ShmInit ==
    /\ name = 0 /\ created = 0 /\ issued = {}
    /\ form  = [g \in Segment |-> "bare"]
    /\ ready = [g \in Segment |-> FALSE]
    /\ gen   = [g \in Segment |-> 0]
    /\ head  = [g \in Segment |-> Zeros]
    /\ word  = [g \in Segment |-> [i \in Word |-> Zeros]]
    /\ begun = [g \in Segment |-> 0]
    /\ wpc   = [w \in Writer |-> "absent"]
    /\ own   = [w \in Writer |-> 0]
    /\ paper = [w \in Writer |-> AnyContent]
    /\ wrote = [w \in Writer |-> 0]
    /\ rpc    = [r \in Reader |-> "closed"]
    /\ desc   = [r \in Reader |-> NoneYet]
    /\ map    = [r \in Reader |-> 0]
    /\ snap   = [r \in Reader |-> 0]
    /\ readTo = [r \in Reader |-> 0]
    /\ since  = [r \in Reader |-> 0]

-----------------------------------------------------------------------------
(* create: the name is taken exclusively, the segment gets its size, then  *)
(* its header.  Each later failure unlinks the name.                       *)

Writes(w, from, to) ==
    /\ wpc[w] = from
    /\ wpc' = [wpc EXCEPT ![w] = to]
    /\ UNCHANGED reader

\* MUTANT: an existing segment is taken for a stale one and displaced.
CreateDisplacing(w) ==
    /\ created < MaxSegments
    /\ Writes(w, "absent", "bare")
    /\ created' = created + 1
    /\ own' = [own EXCEPT ![w] = created + 1]
    /\ name' = created + 1
    /\ UNCHANGED <<segment, paper, wrote, issued>>

Create(w) ==
    /\ name = 0
    /\ created < MaxSegments
    /\ Writes(w, "absent", "bare")
    /\ created' = created + 1
    /\ own' = [own EXCEPT ![w] = created + 1]
    /\ name' = created + 1
    /\ UNCHANGED <<segment, paper, wrote, issued>>

SetLength(w) ==
    /\ Writes(w, "bare", "sized")
    /\ form' = [form EXCEPT ![own[w]] = "sized"]
    /\ UNCHANGED <<name, ready, gen, head, word, begun, own, paper, wrote, created, issued>>

WriteHeader(w) ==
    /\ Writes(w, "sized", "idle")
    /\ form'  = [form EXCEPT ![own[w]] = "headed"]
    /\ gen'   = [gen EXCEPT ![own[w]] = 0]
    /\ ready' = [ready EXCEPT ![own[w]] = FALSE]
    /\ UNCHANGED <<name, head, word, begun, own, paper, wrote, created, issued>>

\* The process has no writer any more.
Gone(w) ==
    /\ wpc' = [wpc EXCEPT ![w] = "absent"]
    /\ own' = [own EXCEPT ![w] = 0]
    /\ paper' = [paper EXCEPT ![w] = AnyContent]
    /\ wrote' = [wrote EXCEPT ![w] = 0]
    /\ UNCHANGED <<segment, created, issued, reader>>

CreateFails(w) ==
    /\ wpc[w] \in {"bare", "sized"}
    /\ name' = 0
    /\ Gone(w)

-----------------------------------------------------------------------------
(* publish. *)

\* MUTANT: the slot is not withdrawn first.
WithdrawNot(w, c) ==
    /\ Writes(w, "idle", "withdrawn")
    /\ begun[own[w]] < MaxPublished
    /\ paper' = [paper EXCEPT ![w] = c]
    /\ wrote' = [wrote EXCEPT ![w] = 0]
    /\ UNCHANGED <<name, segment, own, created, issued>>

\* ready = 0
Withdraw(w, c) ==
    /\ Writes(w, "idle", "withdrawn")
    /\ begun[own[w]] < MaxPublished
    /\ paper' = [paper EXCEPT ![w] = c]
    /\ wrote' = [wrote EXCEPT ![w] = 0]
    /\ ready' = [ready EXCEPT ![own[w]] = FALSE]
    /\ UNCHANGED <<name, form, gen, head, word, begun, own, created, issued>>

\* MUTANT: the counter does not wrap.
NextGenUnbounded(g) == gen[g] + 1

NextGen(g) == IF gen[g] = Width - 1 THEN 0 ELSE gen[g] + 1

\* MUTANT: the generation moves once per publication, at its end.
BeginQuietly(w) ==
    /\ Writes(w, "withdrawn", "writing")
    /\ begun' = [begun EXCEPT ![own[w]] = @ + 1]
    /\ UNCHANGED <<name, form, gen, ready, head, word, own, paper, wrote, created, issued>>

\* The generation becomes odd.
BeginWriting(w) ==
    /\ Writes(w, "withdrawn", "writing")
    /\ gen' = [gen EXCEPT ![own[w]] = NextGen(own[w])]
    /\ begun' = [begun EXCEPT ![own[w]] = @ + 1]
    /\ UNCHANGED <<name, form, ready, head, word, own, paper, wrote, created, issued>>

WriteWord(w) ==
    /\ wrote[w] < Words
    /\ Writes(w, "writing", "writing")
    /\ wrote' = [wrote EXCEPT ![w] = @ + 1]
    /\ word' = [word EXCEPT ![own[w]][wrote[w] + 1] = paper[w]]
    /\ UNCHANGED <<name, form, ready, gen, head, begun, own, paper, created, issued>>

\* Length and digest.
WriteDigest(w) ==
    /\ wrote[w] = Words
    /\ Writes(w, "writing", "written")
    /\ head' = [head EXCEPT ![own[w]] = paper[w]]
    /\ UNCHANGED <<name, form, ready, gen, word, begun, own, paper, wrote, created, issued>>

\* The generation becomes even again.
EndWriting(w) ==
    /\ Writes(w, "written", "stable")
    /\ gen' = [gen EXCEPT ![own[w]] = NextGen(own[w])]
    /\ UNCHANGED <<name, form, ready, head, word, begun, own, paper, wrote, created, issued>>

\* ready = 1; publish() returns the descriptor.
Offer(w) ==
    /\ Writes(w, "stable", "idle")
    /\ ready' = [ready EXCEPT ![own[w]] = TRUE]
    /\ issued' = issued \cup {[content |-> paper[w], generation |-> gen[own[w]]]}
    /\ UNCHANGED <<name, form, gen, head, word, begun, own, paper, wrote, created>>

-----------------------------------------------------------------------------
(* The end of a writer.  Drop unlinks the name; a writer that dies does    *)
(* not, and whoever knows that it is dead may unlink for it.               *)

Drop(w) ==
    /\ Writes(w, "idle", "dropping")
    /\ ready' = [ready EXCEPT ![own[w]] = FALSE]
    /\ UNCHANGED <<name, form, gen, head, word, begun, own, paper, wrote, created, issued>>

Unlink(w) ==
    /\ wpc[w] = "dropping"
    /\ name' = 0
    /\ Gone(w)

Die(w) ==
    /\ wpc[w] # "absent"
    /\ UNCHANGED name
    /\ Gone(w)

CleanUp ==
    /\ name # 0
    /\ \A w \in Writer : own[w] # name
    /\ name' = 0
    /\ UNCHANGED <<segment, writer, reader>>

-----------------------------------------------------------------------------
(* open: every check that fails ends it.                                   *)

Others == <<name, segment, writer>>

\* The reader goes on; or its attempt ends, or its view is dropped.
Goes(r, to) ==
    /\ rpc' = [rpc EXCEPT ![r] = to]
    /\ UNCHANGED <<desc, map>>

Ends(r) ==
    /\ rpc'    = [rpc EXCEPT ![r] = "closed"]
    /\ desc'   = [desc EXCEPT ![r] = NoneYet]
    /\ map'    = [map EXCEPT ![r] = 0]
    /\ snap'   = [snap EXCEPT ![r] = 0]
    /\ readTo' = [readTo EXCEPT ![r] = 0]
    /\ since'  = [since EXCEPT ![r] = 0]

\* A check without a result of its own.
Checks(r, from, passes, to) ==
    /\ rpc[r] = from
    /\ IF passes THEN Goes(r, to) /\ UNCHANGED <<snap, readTo, since>> ELSE Ends(r)
    /\ UNCHANGED Others

\* The name is resolved and the segment mapped.  A descriptor without a
\* generation has the default 0.
Open(r, d, g) ==
    /\ rpc[r] = "closed"
    /\ g \in {0, d.generation}
    /\ name # 0
    /\ form[name] # "bare"
    /\ rpc' = [rpc EXCEPT ![r] = "mapped"]
    /\ desc' = [desc EXCEPT ![r] = [d EXCEPT !.generation = g]]
    /\ map' = [map EXCEPT ![r] = name]
    /\ UNCHANGED <<Others, snap, readTo, since>>

\* Magic, version and the ready flag.
CheckReady(r) ==
    Checks(r, "mapped", form[map[r]] = "headed" /\ ready[map[r]], "ready")

Hinted(r) == desc[r].generation \in {0, gen[map[r]]}

\* MUTANT: an odd generation is as good as an even one.
CheckHintOnly(r) ==
    /\ rpc[r] = "ready"
    /\ IF Hinted(r)
       THEN /\ Goes(r, "header")
            /\ snap' = [snap EXCEPT ![r] = gen[map[r]]]
            /\ since' = [since EXCEPT ![r] = begun[map[r]]]
            /\ UNCHANGED readTo
       ELSE Ends(r)
    /\ UNCHANGED Others

CheckGeneration(r) ==
    /\ rpc[r] = "ready"
    /\ IF gen[map[r]] % 2 = 0 /\ Hinted(r)
       THEN /\ Goes(r, "header")
            /\ snap' = [snap EXCEPT ![r] = gen[map[r]]]
            /\ since' = [since EXCEPT ![r] = begun[map[r]]]
            /\ UNCHANGED readTo
       ELSE Ends(r)
    /\ UNCHANGED Others

CheckHeader(r) == Checks(r, "header", head[map[r]] = desc[r].content, "words")

\* The digest of the payload comes out right if each word read is one of the
\* descriptor's payload; otherwise the comparison at its end fails.
DigestWord(r) ==
    /\ rpc[r] = "words"
    /\ readTo[r] < Words
    /\ IF word[map[r]][readTo[r] + 1] = desc[r].content
       THEN /\ readTo' = [readTo EXCEPT ![r] = @ + 1]
            /\ UNCHANGED <<rpc, desc, map, snap, since>>
       ELSE Ends(r)
    /\ UNCHANGED Others

DigestDone(r) == readTo[r] = Words /\ Checks(r, "words", TRUE, "again")

CheckAgain(r) == Checks(r, "again", gen[map[r]] = snap[r], "last")

CheckReadyAgain(r) == Checks(r, "last", ready[map[r]], "open")

Close(r) ==
    /\ rpc[r] = "open"
    /\ Ends(r)
    /\ UNCHANGED Others

-----------------------------------------------------------------------------

WriterStep(w) ==
    \/ Create(w) \/ SetLength(w) \/ WriteHeader(w) \/ CreateFails(w)
    \/ \E c \in Content : Withdraw(w, c)
    \/ BeginWriting(w) \/ WriteWord(w) \/ WriteDigest(w) \/ EndWriting(w) \/ Offer(w)
    \/ Drop(w) \/ Unlink(w) \/ Die(w)

ReaderStep(r) ==
    \/ \E d \in issued, g \in Generation : Open(r, d, g)
    \/ CheckReady(r) \/ CheckGeneration(r) \/ CheckHeader(r) \/ DigestWord(r)
    \/ DigestDone(r) \/ CheckAgain(r) \/ CheckReadyAgain(r) \/ Close(r)

ShmNext ==
    \/ \E w \in Writer : WriterStep(w)
    \/ \E r \in Reader : ReaderStep(r)
    \/ CleanUp

ShmSpec == ShmInit /\ [][ShmNext]_vars

-----------------------------------------------------------------------------
(* Properties *)

\* Every variable keeps its type; the generation fits its width.
ShmTypeOK ==
    /\ name \in 0..MaxSegments
    /\ created \in 0..MaxSegments
    /\ form  \in [Segment -> {"bare", "sized", "headed"}]
    /\ ready \in [Segment -> BOOLEAN]
    /\ gen   \in [Segment -> Generation]
    /\ head  \in [Segment -> Content \cup {Zeros}]
    /\ word  \in [Segment -> [Word -> Content \cup {Zeros}]]
    /\ begun \in [Segment -> Nat]
    /\ wpc   \in [Writer -> WriterLabel]
    /\ own   \in [Writer -> 0..MaxSegments]
    /\ paper \in [Writer -> Content]
    /\ wrote \in [Writer -> 0..Words]
    /\ issued \subseteq Descriptor
    /\ rpc    \in [Reader -> ReaderLabel]
    /\ desc   \in [Reader -> Descriptor]
    /\ map    \in [Reader -> 0..MaxSegments]
    /\ snap   \in [Reader -> Generation]
    /\ readTo \in [Reader -> 0..Words]
    /\ since  \in [Reader -> Nat]

Holds(g, c) == head[g] = c /\ \A i \in Word : word[g][i] = c

\* A segment that says it is ready holds one payload, whole, with its digest,
\* under an even generation, whenever its writer dies.
ReadyIsWhole ==
    \A g \in Segment : ready[g] =>
        /\ gen[g] % 2 = 0
        /\ \E c \in Content : Holds(g, c)

\* The name of a writer's segment stays its own until the writer drops it or
\* dies: nobody else's create, failure or clean-up takes it away.
NameIsOwned == \A w \in Writer : own[w] # 0 => name = own[w]

\* What a reader has verified stays under its view until the writer begins
\* another publication: payload() then returns what the descriptor names.
ViewIsDescribed ==
    \A r \in Reader :
        (rpc[r] \in {"again", "last", "open"} /\ begun[map[r]] = since[r])
            => Holds(map[r], desc[r].content)

\* A reader that finds the generation unchanged has not overlooked a
\* publication since it first looked, unless a whole turn of the counter.
RaceIsFound ==
    [][\A r \in Reader :
          (/\ rpc[r] = "again" /\ rpc'[r] = "last"
           /\ begun[map[r]] - since[r] < HalfWidth)
             => begun[map[r]] = since[r]]_vars
=============================================================================
