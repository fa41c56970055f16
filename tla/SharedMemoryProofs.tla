------------------------- MODULE SharedMemoryProofs -------------------------
(***************************************************************************)
(* Proofs about the shared memory for any writers, readers, payloads,      *)
(* number of words, width of the generation and bounds.                    *)
(*                                                                         *)
(* The invariant follows the seqlock: a segment has one writer at most,    *)
(* whose stage says what the generation, the flag and the words are, and a *)
(* reader for whom no publication has begun since it looked at the         *)
(* generation still finds that generation, an even one, so that nothing    *)
(* has been written meanwhile.                                             *)
(***************************************************************************)
EXTENDS SharedMemory, TLAPS

-----------------------------------------------------------------------------
(* The invariant. *)

Fresh(g) == gen[g] = 0 /\ begun[g] = 0 /\ ~ready[g]

\* The generation n belongs to the b-th publication, after whole turns.
Turns(n, b) == \E t \in Nat : n + (n % 2) + 2 * (HalfWidth * t) = 2 * b

\* One writer at most, whose segment has been created.
OneWriter ==
    /\ \A w, u \in Writer : own[w] # 0 /\ own[u] # 0 => w = u
    /\ \A w \in Writer : own[w] # 0 <=> wpc[w] # "absent"
    /\ \A w \in Writer : own[w] <= created
    /\ name <= created

\* What a writer's stage says of its segment.
Stage(w) ==
    /\ wpc[w] \in {"bare", "sized"} => Fresh(own[w]) /\ form[own[w]] = wpc[w]
    /\ wpc[w] \notin {"absent", "bare", "sized"} => form[own[w]] = "headed"
    /\ wpc[w] \in {"withdrawn", "writing", "written", "stable"} => ~ready[own[w]]
    /\ wpc[w] \in {"idle", "withdrawn", "stable"} => gen[own[w]] % 2 = 0
    /\ wpc[w] \in {"writing", "written"} => gen[own[w]] % 2 = 1
    /\ wpc[w] = "withdrawn" => wrote[w] = 0
    /\ wpc[w] = "writing" => \A i \in 1..wrote[w] : word[own[w]][i] = paper[w]
    /\ wpc[w] \in {"written", "stable"} => \A i \in Word : word[own[w]][i] = paper[w]
    /\ wpc[w] \in {"written", "stable"} => head[own[w]] = paper[w]

WriterKnows == \A w \in Writer : Stage(w)

SegmentsKept ==
    \A g \in Segment :
        /\ g > created => Fresh(g) /\ form[g] = "bare"
        /\ Turns(gen[g], begun[g])

Looked == {"header", "words", "again", "last", "open"}

\* What a reader knows of the segment it has mapped.
Found(r) ==
    /\ rpc[r] # "closed" => map[r] # 0 /\ form[map[r]] # "bare"
    /\ rpc[r] \notin {"closed", "mapped"} => form[map[r]] = "headed"
    /\ rpc[r] \in Looked =>
        /\ since[r] <= begun[map[r]]
        /\ snap[r] % 2 = 0
        /\ Turns(snap[r], since[r])
        /\ begun[map[r]] = since[r] => gen[map[r]] = snap[r]
    /\ rpc[r] \in {"mapped", "ready", "header"} => readTo[r] = 0
    /\ rpc[r] = "closed" => readTo[r] = 0
    /\ (rpc[r] = "words" /\ begun[map[r]] = since[r]) =>
        /\ head[map[r]] = desc[r].content
        /\ \A i \in 1..readTo[r] : word[map[r]][i] = desc[r].content
    /\ (rpc[r] \in {"again", "last", "open"} /\ begun[map[r]] = since[r])
        => Holds(map[r], desc[r].content)

ReaderKnows == \A r \in Reader : Found(r)

IInv ==
    /\ ShmTypeOK
    /\ OneWriter
    /\ NameIsOwned
    /\ WriterKnows
    /\ SegmentsKept
    /\ ReadyIsWhole
    /\ ReaderKnows

-----------------------------------------------------------------------------
(* The counter. *)

USE ShmAssumption

LEMMA NextGenFacts ==
    ASSUME ShmTypeOK, NEW g \in Segment, Turns(gen[g], begun[g])
    PROVE  /\ NextGen(g) \in Generation
           /\ gen[g] % 2 = 0 => NextGen(g) % 2 = 1 /\ Turns(NextGen(g), begun[g] + 1)
           /\ gen[g] % 2 = 1 => NextGen(g) % 2 = 0 /\ Turns(NextGen(g), begun[g])
<1> DEFINE n == gen[g]
           b == begun[g]
<1>1. n \in Nat /\ n <= Width - 1 /\ b \in Nat /\ Width = 2 * HalfWidth
    BY DEF ShmTypeOK, Generation, Width
<1>2. NextGen(g) = IF n = Width - 1 THEN 0 ELSE n + 1
    BY DEF NextGen
<1>3. NextGen(g) \in Generation
    BY <1>1, <1>2 DEF Generation
<1>4. PICK t \in Nat : n + (n % 2) + 2 * (HalfWidth * t) = 2 * b
    BY DEF Turns
<1>5. HalfWidth * t \in Nat /\ HalfWidth * (t + 1) = HalfWidth * t + HalfWidth
    <2> HIDE DEF n, b
    <2> QED OBVIOUS
<1>6. ASSUME n % 2 = 0
      PROVE  NextGen(g) % 2 = 1 /\ Turns(NextGen(g), b + 1)
    <2>1. NextGen(g) = n + 1
        BY <1>1, <1>2, <1>6
    <2>2. (n + 1) % 2 = 1
        BY <1>1, <1>6
    <2>3. (n + 1) + 1 + 2 * (HalfWidth * t) = 2 * (b + 1)
        BY <1>1, <1>4, <1>5, <1>6
    <2> QED BY <2>1, <2>2, <2>3 DEF Turns
<1>7. ASSUME n % 2 = 1
      PROVE  NextGen(g) % 2 = 0 /\ Turns(NextGen(g), b)
    <2>1. CASE n = Width - 1
        <3>1. NextGen(g) = 0
            BY <1>2, <2>1
        <3>2. 0 + 0 + 2 * (HalfWidth * (t + 1)) = 2 * b
            BY <1>1, <1>4, <1>5, <1>7, <2>1
        <3>3. t + 1 \in Nat /\ 0 % 2 = 0
            OBVIOUS
        <3> QED BY <3>1, <3>2, <3>3 DEF Turns
    <2>2. CASE n # Width - 1
        <3>1. NextGen(g) = n + 1
            BY <1>2, <2>2
        <3>2. (n + 1) % 2 = 0
            BY <1>1, <1>7
        <3>3. (n + 1) + 0 + 2 * (HalfWidth * t) = 2 * b
            BY <1>1, <1>4, <1>5, <1>7
        <3> QED BY <3>1, <3>2, <3>3 DEF Turns
    <2> QED BY <2>1, <2>2
<1> QED BY <1>3, <1>6, <1>7

\* Two publications with the same even generation are whole turns apart.
LEMMA SameGeneration ==
    ASSUME NEW n \in Nat, NEW b \in Nat, NEW c \in Nat, n % 2 = 0,
           Turns(n, b), Turns(n, c), b <= c, c - b < HalfWidth
    PROVE  b = c
<1>1. PICK t \in Nat : n + (n % 2) + 2 * (HalfWidth * t) = 2 * b
    BY DEF Turns
<1>2. PICK u \in Nat : n + (n % 2) + 2 * (HalfWidth * u) = 2 * c
    BY DEF Turns
<1>3. HalfWidth * t \in Nat /\ HalfWidth * u \in Nat
    OBVIOUS
<1>4. HalfWidth * u - HalfWidth * t = c - b
    BY <1>1, <1>2, <1>3
<1>5. HalfWidth * u - HalfWidth * t = HalfWidth * (u - t)
    OBVIOUS
<1>6. CASE u - t <= -1
    <2>1. HalfWidth * (u - t) <= HalfWidth * (-1)
        BY <1>6
    <2> QED BY <1>4, <1>5, <2>1
<1>7. CASE u - t >= 1
    <2>1. HalfWidth * (u - t) >= HalfWidth * 1
        BY <1>7
    <2> QED BY <1>4, <1>5, <2>1
<1>8. CASE u - t = 0
    BY <1>4, <1>5, <1>8
<1> QED BY <1>6, <1>7, <1>8

-----------------------------------------------------------------------------
(* Types. *)

LEMMA Defaults ==
    /\ AnyContent \in Content /\ NoneYet \in Descriptor
    /\ 0 \in Generation /\ Width \in Nat
BY DEF AnyContent, NoneYet, Descriptor, Generation, Width

LEMMA InitInv == ShmInit => IInv
<1> SUFFICES ASSUME ShmInit PROVE IInv
    OBVIOUS
<1>1. ShmTypeOK
    BY Defaults DEF ShmInit, ShmTypeOK, WriterLabel, ReaderLabel
<1>2. OneWriter /\ NameIsOwned /\ WriterKnows /\ ReadyIsWhole
    BY DEF ShmInit, OneWriter, NameIsOwned, WriterKnows, Stage, ReadyIsWhole
<1>3. SegmentsKept
    <2>1. Turns(0, 0)
        <3>1. 0 + (0 % 2) + 2 * (HalfWidth * 0) = 2 * 0
            OBVIOUS
        <3> QED BY <3>1 DEF Turns
    <2> QED BY <2>1 DEF ShmInit, SegmentsKept, Fresh, Segment
<1>4. ReaderKnows
    BY DEF ShmInit, ReaderKnows, Found, Looked
<1> QED BY <1>1, <1>2, <1>3, <1>4 DEF IInv

\* The segment of a writer is one of the segments.
LEMMA OwnSegment ==
    ASSUME IInv, NEW w \in Writer, wpc[w] # "absent"
    PROVE  own[w] \in Segment /\ own[w] <= created /\ own[w] # 0
BY DEF IInv, OneWriter, ShmTypeOK, Segment

LEMMA WriterTypes ==
    ASSUME IInv, NEW w \in Writer, WriterStep(w)
    PROVE  ShmTypeOK'
<1> USE DEF WriterLabel, Writes
<1>0. ShmTypeOK
    BY DEF IInv
<1>1. CASE Create(w)
    <2>1. created + 1 \in 0..MaxSegments
        BY <1>0, <1>1 DEF ShmTypeOK, Create
    <2>2. /\ created' \in 0..MaxSegments /\ name' \in 0..MaxSegments
          /\ wpc' \in [Writer -> WriterLabel]
          /\ own' \in [Writer -> 0..MaxSegments]
        BY <1>0, <1>1, <2>1 DEF ShmTypeOK, Create
    <2> QED BY <1>0, <1>1, <2>2 DEF ShmTypeOK, Create, segment, reader
<1>2. CASE SetLength(w)
    BY <1>0, <1>2 DEF ShmTypeOK, SetLength, reader
<1>3. CASE WriteHeader(w)
    BY <1>0, <1>3, Defaults DEF ShmTypeOK, WriteHeader, reader
<1>4. CASE CreateFails(w) \/ Unlink(w) \/ Die(w)
    <2>1. Gone(w) /\ name' \in {0, name}
        BY <1>4 DEF CreateFails, Unlink, Die
    <2>2. /\ wpc' \in [Writer -> WriterLabel]
          /\ own' \in [Writer -> 0..MaxSegments]
          /\ paper' \in [Writer -> Content]
          /\ wrote' \in [Writer -> 0..Words]
        BY <1>0, <2>1, Defaults DEF ShmTypeOK, Gone
    <2> QED BY <1>0, <2>1, <2>2 DEF ShmTypeOK, Gone, segment, reader
<1>5. ASSUME NEW c \in Content, Withdraw(w, c) PROVE ShmTypeOK'
    <2>1. wpc' \in [Writer -> WriterLabel]
        BY <1>0, <1>5 DEF ShmTypeOK, Withdraw
    <2>2. paper' \in [Writer -> Content]
        BY <1>0, <1>5 DEF ShmTypeOK, Withdraw
    <2>3. wrote' \in [Writer -> 0..Words]
        BY <1>0, <1>5 DEF ShmTypeOK, Withdraw
    <2>4. ready' \in [Segment -> BOOLEAN]
        BY <1>0, <1>5 DEF ShmTypeOK, Withdraw
    <2> QED BY <1>0, <1>5, <2>1, <2>2, <2>3, <2>4 DEF ShmTypeOK, Withdraw, reader
<1>6. CASE BeginWriting(w)
    <2>1. own[w] \in Segment
        BY <1>6, OwnSegment DEF BeginWriting
    <2>2. NextGen(own[w]) \in Generation
        BY <1>0, <2>1, NextGenFacts DEF IInv, SegmentsKept
    <2>3. wpc' \in [Writer -> WriterLabel]
        BY <1>0, <1>6 DEF ShmTypeOK, BeginWriting
    <2>4. gen' \in [Segment -> Generation]
        BY <1>0, <1>6, <2>2 DEF ShmTypeOK, BeginWriting
    <2>5. begun' \in [Segment -> Nat]
        <3>1. begun[own[w]] + 1 \in Nat
            BY <1>0, <2>1 DEF ShmTypeOK
        <3> QED BY <1>0, <1>6, <3>1 DEF ShmTypeOK, BeginWriting
    <2> QED BY <1>0, <1>6, <2>3, <2>4, <2>5 DEF ShmTypeOK, BeginWriting, reader
<1>7. CASE WriteWord(w)
    <2>1. /\ wpc' \in [Writer -> WriterLabel]
          /\ wrote' \in [Writer -> 0..Words]
        BY <1>0, <1>7 DEF ShmTypeOK, WriteWord
    <2>2. word' \in [Segment -> [Word -> Content \cup {Zeros}]]
        <3>1. paper[w] \in Content \cup {Zeros}
            BY <1>0 DEF ShmTypeOK
        <3> QED BY <1>0, <1>7, <3>1 DEF ShmTypeOK, WriteWord
    <2> QED BY <1>0, <1>7, <2>1, <2>2 DEF ShmTypeOK, WriteWord, reader
<1>8. CASE WriteDigest(w)
    BY <1>0, <1>8 DEF ShmTypeOK, WriteDigest, reader
<1>9. CASE EndWriting(w)
    <2>1. own[w] \in Segment
        BY <1>9, OwnSegment DEF EndWriting
    <2>2. NextGen(own[w]) \in Generation
        BY <1>0, <2>1, NextGenFacts DEF IInv, SegmentsKept
    <2> QED BY <1>0, <1>9, <2>2 DEF ShmTypeOK, EndWriting, reader
<1>10. CASE Offer(w)
    <2>1. own[w] \in Segment
        BY <1>10, OwnSegment DEF Offer
    <2>2. [content |-> paper[w], generation |-> gen[own[w]]] \in Descriptor
        BY <1>0, <2>1 DEF ShmTypeOK, Descriptor
    <2> QED BY <1>0, <1>10, <2>2 DEF ShmTypeOK, Offer, reader
<1>11. CASE Drop(w)
    BY <1>0, <1>11 DEF ShmTypeOK, Drop, reader
<1> QED BY <1>1, <1>2, <1>3, <1>4, <1>5, <1>6, <1>7, <1>8, <1>9, <1>10, <1>11
        DEF WriterStep

\* A reader that ends is back at its defaults.
LEMMA EndTypes ==
    ASSUME ShmTypeOK, NEW r \in Reader, Ends(r), UNCHANGED Others
    PROVE  ShmTypeOK'
<1>1. /\ rpc' \in [Reader -> ReaderLabel]
      /\ desc' \in [Reader -> Descriptor]
      /\ map' \in [Reader -> 0..MaxSegments]
      /\ snap' \in [Reader -> Generation]
    BY Defaults DEF ShmTypeOK, Ends, ReaderLabel
<1>2. /\ readTo' \in [Reader -> 0..Words]
      /\ since' \in [Reader -> Nat]
    BY DEF ShmTypeOK, Ends
<1> QED BY <1>1, <1>2 DEF ShmTypeOK, Others, segment, writer

\* A check passes to the next label or ends.
LEMMA CheckTypes ==
    ASSUME ShmTypeOK, NEW r \in Reader, NEW from, NEW to \in ReaderLabel,
           NEW passes \in BOOLEAN, Checks(r, from, passes, to)
    PROVE  ShmTypeOK'
<1>1. CASE passes
    BY <1>1 DEF ShmTypeOK, Checks, Goes, Others, segment, writer
<1>2. CASE ~passes
    BY <1>2, EndTypes DEF Checks
<1> QED BY <1>1, <1>2

LEMMA ReaderTypes ==
    ASSUME IInv, NEW r \in Reader, ReaderStep(r)
    PROVE  ShmTypeOK'
<1>0. ShmTypeOK
    BY DEF IInv
<1>1. ASSUME NEW d \in issued, NEW g \in Generation, Open(r, d, g)
      PROVE  ShmTypeOK'
    <2>1. [d EXCEPT !.generation = g] \in Descriptor
        BY <1>0 DEF ShmTypeOK, Descriptor
    <2> QED BY <1>0, <1>1, <2>1 DEF ShmTypeOK, Open, Others, segment, writer, ReaderLabel
<1>2. CASE CheckReady(r)
    BY <1>0, <1>2, CheckTypes DEF CheckReady, ReaderLabel
<1>3. CASE CheckGeneration(r)
    <2>1. CASE Ends(r)
        BY <1>0, <1>3, <2>1, EndTypes DEF CheckGeneration
    <2>2. CASE ~Ends(r)
        <3>1. map[r] \in Segment
            BY <1>0, <1>3 DEF IInv, ReaderKnows, Found, CheckGeneration, ShmTypeOK, Segment
        <3>2. /\ rpc' = [rpc EXCEPT ![r] = "header"]
              /\ snap' = [snap EXCEPT ![r] = gen[map[r]]]
              /\ since' = [since EXCEPT ![r] = begun[map[r]]]
              /\ UNCHANGED <<readTo, desc, map, Others>>
            BY <1>3, <2>2 DEF CheckGeneration, Goes
        <3>3. gen[map[r]] \in Generation /\ begun[map[r]] \in Nat
            BY <1>0, <3>1 DEF ShmTypeOK
        <3>4. /\ rpc' \in [Reader -> ReaderLabel]
              /\ snap' \in [Reader -> Generation]
              /\ since' \in [Reader -> Nat]
            BY <1>0, <3>2, <3>3 DEF ShmTypeOK, ReaderLabel
        <3> QED BY <1>0, <3>2, <3>4 DEF ShmTypeOK, Others, segment, writer
    <2> QED BY <2>1, <2>2
<1>4. CASE CheckHeader(r)
    BY <1>0, <1>4, CheckTypes DEF CheckHeader, ReaderLabel
<1>5. CASE DigestWord(r)
    <2>1. CASE Ends(r)
        BY <1>0, <1>5, <2>1, EndTypes DEF DigestWord
    <2>2. CASE ~Ends(r)
        <3>1. /\ readTo' = [readTo EXCEPT ![r] = @ + 1] /\ readTo[r] < Words
              /\ UNCHANGED <<rpc, desc, map, snap, since, Others>>
            BY <1>5, <2>2 DEF DigestWord
        <3>2. readTo' \in [Reader -> 0..Words]
            BY <1>0, <3>1 DEF ShmTypeOK
        <3> QED BY <1>0, <3>1, <3>2 DEF ShmTypeOK, Others, segment, writer
    <2> QED BY <2>1, <2>2
<1>6. CASE DigestDone(r)
    BY <1>0, <1>6, CheckTypes DEF DigestDone, ReaderLabel
<1>7. CASE CheckAgain(r)
    BY <1>0, <1>7, CheckTypes DEF CheckAgain, ReaderLabel
<1>8. CASE CheckReadyAgain(r)
    <2>1. map[r] \in Segment
        BY <1>0, <1>8 DEF IInv, ReaderKnows, Found, CheckReadyAgain, Checks, ShmTypeOK, Segment
    <2>2. ready[map[r]] \in BOOLEAN
        BY <1>0, <2>1 DEF ShmTypeOK
    <2> QED BY <1>0, <1>8, <2>2, CheckTypes DEF CheckReadyAgain, ReaderLabel
<1>9. CASE Close(r)
    BY <1>0, <1>9, EndTypes DEF Close
<1> QED BY <1>1, <1>2, <1>3, <1>4, <1>5, <1>6, <1>7, <1>8, <1>9 DEF ReaderStep

-----------------------------------------------------------------------------
(* What a writer does leaves the other segments alone. *)

\* A step of a writer that has a segment changes no other segment, and no
\* other writer is there.
LEMMA Alone ==
    ASSUME IInv, NEW w \in Writer, WriterStep(w), NEW u \in Writer, u # w
    PROVE  wpc[u] = "absent" /\ own[u] = 0
<1>1. CASE Create(w)
    BY <1>1 DEF IInv, NameIsOwned, OneWriter, Create
<1>2. CASE ~Create(w)
    <2>1. wpc[w] # "absent"
        BY <1>2 DEF WriterStep, Writes, SetLength, WriteHeader, CreateFails, Withdraw,
              BeginWriting, WriteWord, WriteDigest, EndWriting, Offer, Drop, Unlink, Die
    <2> QED BY <2>1 DEF IInv, OneWriter
<1> QED BY <1>1, <1>2

LEMMA OtherWriters ==
    ASSUME IInv, NEW w \in Writer, WriterStep(w), NEW u \in Writer, u # w
    PROVE  wpc'[u] = wpc[u] /\ own'[u] = own[u]
BY DEF IInv, ShmTypeOK, WriterStep, Writes, Create, SetLength, WriteHeader, CreateFails, Gone,
       Withdraw, BeginWriting, WriteWord, WriteDigest, EndWriting, Offer, Drop, Unlink, Die

LEMMA OtherSegments ==
    ASSUME IInv, NEW w \in Writer, WriterStep(w), NEW g \in Segment, g # own[w]
    PROVE  /\ form'[g] = form[g] /\ ready'[g] = ready[g]
           /\ gen'[g] = gen[g] /\ begun'[g] = begun[g]
           /\ head'[g] = head[g] /\ word'[g] = word[g]
<1>0. ShmTypeOK
    BY DEF IInv
<1>1. form'[g] = form[g] /\ ready'[g] = ready[g]
    BY <1>0 DEF ShmTypeOK, segment, WriterStep, Writes, Create, SetLength, WriteHeader, CreateFails,
       Gone, Withdraw, BeginWriting, WriteWord, WriteDigest, EndWriting, Offer, Drop, Unlink, Die
<1>2. gen'[g] = gen[g] /\ begun'[g] = begun[g]
    BY <1>0 DEF ShmTypeOK, segment, WriterStep, Writes, Create, SetLength, WriteHeader, CreateFails,
       Gone, Withdraw, BeginWriting, WriteWord, WriteDigest, EndWriting, Offer, Drop, Unlink, Die
<1>3. head'[g] = head[g] /\ word'[g] = word[g]
    BY <1>0 DEF ShmTypeOK, segment, WriterStep, Writes, Create, SetLength, WriteHeader, CreateFails,
       Gone, Withdraw, BeginWriting, WriteWord, WriteDigest, EndWriting, Offer, Drop, Unlink, Die
<1> QED BY <1>1, <1>2, <1>3

LEMMA WriterLeavesReaders ==
    ASSUME NEW w \in Writer, WriterStep(w)
    PROVE  UNCHANGED reader
BY DEF WriterStep, Writes, Create, SetLength, WriteHeader, CreateFails, Gone, Withdraw,
       BeginWriting, WriteWord, WriteDigest, EndWriting, Offer, Drop, Unlink, Die

-----------------------------------------------------------------------------
(* The writer's steps. *)

LEMMA WriterKeepsOwners ==
    ASSUME IInv, NEW w \in Writer, WriterStep(w)
    PROVE  OneWriter' /\ NameIsOwned'
<1>0. ShmTypeOK /\ OneWriter /\ NameIsOwned
    BY DEF IInv
<1>a. \A u \in Writer : u # w => /\ wpc'[u] = "absent" /\ own'[u] = 0
    BY Alone, OtherWriters
<1>1. CASE Create(w)
    <2>1. own'[w] = created + 1 /\ name' = created + 1 /\ created' = created + 1
        BY <1>0, <1>1 DEF Create, ShmTypeOK
    <2>2. wpc'[w] = "bare" /\ created \in Nat
        BY <1>0, <1>1 DEF Create, Writes, ShmTypeOK
    <2> QED BY <1>a, <2>1, <2>2 DEF OneWriter, NameIsOwned
<1>2. CASE CreateFails(w) \/ Unlink(w) \/ Die(w)
    <2>1. own'[w] = 0 /\ wpc'[w] = "absent" /\ created' = created /\ name' \in {0, name}
        BY <1>0, <1>2 DEF CreateFails, Unlink, Die, Gone, ShmTypeOK
    <2> QED BY <1>0, <1>a, <2>1 DEF OneWriter, NameIsOwned, ShmTypeOK
<1>3. CASE \/ SetLength(w) \/ WriteHeader(w) \/ \E c \in Content : Withdraw(w, c)
           \/ BeginWriting(w) \/ WriteWord(w) \/ WriteDigest(w) \/ EndWriting(w)
           \/ Offer(w) \/ Drop(w)
    <2>1. UNCHANGED <<own, name, created>>
        BY <1>3 DEF SetLength, WriteHeader, Withdraw, BeginWriting, WriteWord, WriteDigest,
                    EndWriting, Offer, Drop
    <2>2. wpc[w] # "absent" /\ wpc'[w] # "absent"
        BY <1>0, <1>3 DEF Writes, SetLength, WriteHeader, Withdraw, BeginWriting, WriteWord,
                    WriteDigest, EndWriting, Offer, Drop, ShmTypeOK
    <2> QED BY <1>0, <1>a, <2>1, <2>2 DEF OneWriter, NameIsOwned
<1> QED BY <1>1, <1>2, <1>3 DEF WriterStep

\* The generation of the segment under the writer's hands.
LEMMA OwnGeneration ==
    ASSUME IInv, NEW w \in Writer, WriterStep(w), wpc[w] # "absent"
    PROVE  /\ Turns(gen'[own[w]], begun'[own[w]])
           /\ BeginWriting(w) => gen'[own[w]] % 2 = 1 /\ begun'[own[w]] = begun[own[w]] + 1
           /\ EndWriting(w) => gen'[own[w]] % 2 = 0
           /\ ~BeginWriting(w) => begun'[own[w]] = begun[own[w]]
           /\ ~BeginWriting(w) /\ ~EndWriting(w) => gen'[own[w]] = gen[own[w]]
<1> DEFINE g == own[w]
<1>0. ShmTypeOK /\ g \in Segment /\ Stage(w) /\ Turns(gen[g], begun[g])
    BY OwnSegment DEF IInv, WriterKnows, SegmentsKept
<1>1. CASE BeginWriting(w)
    <2>1. gen'[g] = NextGen(g) /\ begun'[g] = begun[g] + 1
        BY <1>0, <1>1 DEF BeginWriting, ShmTypeOK
    <2>2. gen[g] % 2 = 0
        BY <1>0, <1>1 DEF BeginWriting, Writes, Stage
    <2>3. wpc[w] = "withdrawn"
        BY <1>1 DEF BeginWriting, Writes
    <2>4. ~EndWriting(w)
        BY <2>3 DEF EndWriting, Writes
    <2> QED BY <1>0, <1>1, <2>1, <2>2, <2>4, NextGenFacts
<1>2. CASE EndWriting(w)
    <2>1. gen'[g] = NextGen(g) /\ begun'[g] = begun[g]
        BY <1>0, <1>2 DEF EndWriting, ShmTypeOK
    <2>2. gen[g] % 2 = 1 /\ wpc[w] = "written"
        BY <1>0, <1>2 DEF EndWriting, Writes, Stage
    <2>3. ~BeginWriting(w)
        BY <2>2 DEF BeginWriting, Writes
    <2> QED BY <1>0, <1>2, <2>1, <2>2, <2>3, NextGenFacts
<1>3. CASE WriteHeader(w)
    <2>1. gen'[g] = 0 /\ begun'[g] = begun[g] /\ gen[g] = 0
        BY <1>0, <1>3 DEF WriteHeader, Writes, Stage, Fresh, ShmTypeOK
    <2>2. ~BeginWriting(w) /\ ~EndWriting(w)
        BY <1>3 DEF WriteHeader, BeginWriting, EndWriting, Writes
    <2> QED BY <1>0, <2>1, <2>2
<1>4. CASE ~BeginWriting(w) /\ ~EndWriting(w) /\ ~WriteHeader(w)
    <2>1. gen' = gen /\ begun' = begun
        BY <1>4 DEF WriterStep, Create, SetLength, CreateFails, Gone, Withdraw, WriteWord,
                    WriteDigest, Offer, Drop, Unlink, Die, segment
    <2> QED BY <1>0, <1>4, <2>1
<1> QED BY <1>1, <1>2, <1>3, <1>4

LEMMA WriterKeepsSegments ==
    ASSUME IInv, NEW w \in Writer, WriterStep(w)
    PROVE  SegmentsKept'
<1>0. ShmTypeOK /\ SegmentsKept
    BY DEF IInv
<1> SUFFICES ASSUME NEW g \in Segment
             PROVE  /\ g > created' => Fresh(g)' /\ form'[g] = "bare"
                    /\ Turns(gen'[g], begun'[g])
    BY DEF SegmentsKept
<1>1. created' >= created
    BY <1>0 DEF WriterStep, Create, SetLength, WriteHeader, CreateFails, Gone, Withdraw,
       BeginWriting, WriteWord, WriteDigest, EndWriting, Offer, Drop, Unlink, Die, ShmTypeOK
<1>2. CASE g # own[w]
    <2>1. /\ form'[g] = form[g] /\ ready'[g] = ready[g]
          /\ gen'[g] = gen[g] /\ begun'[g] = begun[g]
        BY <1>2, OtherSegments
    <2>2. g > created' => g > created
        BY <1>0, <1>1, WriterTypes DEF ShmTypeOK, Segment
    <2>3. Turns(gen[g], begun[g]) /\ (g > created => Fresh(g) /\ form[g] = "bare")
        BY <1>0 DEF SegmentsKept
    <2> QED BY <2>1, <2>2, <2>3 DEF Fresh
<1>3. CASE g = own[w]
    <2>1. wpc[w] # "absent"
        BY <1>3 DEF IInv, OneWriter, Segment
    <2>2. ~(g > created')
        BY <1>0, <1>1, <1>3, <2>1, OwnSegment, WriterTypes DEF ShmTypeOK, Segment
    <2> QED BY <1>3, <2>1, <2>2, OwnGeneration
<1> QED BY <1>2, <1>3

LEMMA WriterKeepsStages ==
    ASSUME IInv, NEW w \in Writer, WriterStep(w)
    PROVE  WriterKnows'
<1> SUFFICES ASSUME NEW u \in Writer PROVE Stage(u)'
    BY DEF WriterKnows
<1> DEFINE g == own[w]
<1>0. ShmTypeOK /\ SegmentsKept /\ Stage(w)
    BY DEF IInv, WriterKnows
<1>1. CASE u # w
    <2>1. wpc'[u] = "absent"
        BY <1>1, Alone, OtherWriters
    <2> QED BY <2>1 DEF Stage
<1>2. CASE u = w /\ Create(w)
    <2>1. created + 1 \in Segment
        BY <1>0, <1>2 DEF Create, ShmTypeOK, Segment
    <2>2. Fresh(created + 1) /\ form[created + 1] = "bare"
        BY <1>0, <2>1 DEF SegmentsKept, ShmTypeOK
    <2>3. own'[w] = created + 1 /\ wpc'[w] = "bare" /\ UNCHANGED <<form, ready, gen, begun>>
        BY <1>0, <1>2 DEF Create, Writes, segment, ShmTypeOK
    <2> QED BY <1>2, <2>2, <2>3 DEF Stage, Fresh
<1>3. CASE u = w /\ (CreateFails(w) \/ Unlink(w) \/ Die(w))
    <2>1. wpc'[w] = "absent"
        BY <1>0, <1>3 DEF CreateFails, Unlink, Die, Gone, ShmTypeOK
    <2> QED BY <1>3, <2>1 DEF Stage
<1>4. CASE u = w /\ SetLength(w)
    <2>0. g \in Segment
        BY <1>4, OwnSegment DEF SetLength, Writes
    <2>1. /\ wpc[w] = "bare" /\ wpc'[w] = "sized" /\ form'[g] = "sized"
          /\ UNCHANGED <<own, ready, gen, begun>>
        BY <1>0, <1>4, <2>0 DEF SetLength, Writes, ShmTypeOK
    <2> QED BY <1>0, <1>4, <2>1 DEF Stage, Fresh
<1>5. CASE u = w /\ WriteHeader(w)
    <2>0. g \in Segment
        BY <1>5, OwnSegment DEF WriteHeader, Writes
    <2>1. wpc'[w] = "idle" /\ form'[g] = "headed" /\ gen'[g] = 0 /\ UNCHANGED own
        BY <1>0, <1>5, <2>0 DEF WriteHeader, Writes, ShmTypeOK
    <2> QED BY <1>5, <2>1 DEF Stage
<1>6. ASSUME u = w, NEW c \in Content, Withdraw(w, c) PROVE Stage(u)'
    <2>0. g \in Segment
        BY <1>6, OwnSegment DEF Withdraw, Writes
    <2>1. /\ wpc[w] = "idle" /\ wpc'[w] = "withdrawn" /\ ~ready'[g]
          /\ wrote'[w] = 0 /\ UNCHANGED <<own, form, gen>>
        BY <1>0, <1>6, <2>0 DEF Withdraw, Writes, ShmTypeOK
    <2> QED BY <1>0, <1>6, <2>1 DEF Stage
<1>7. CASE u = w /\ BeginWriting(w)
    <2>0. g \in Segment
        BY <1>7, OwnSegment DEF BeginWriting, Writes
    <2>1. gen'[g] % 2 = 1
        BY <1>7, OwnGeneration DEF BeginWriting, Writes
    <2>2. /\ wpc[w] = "withdrawn" /\ wpc'[w] = "writing"
          /\ UNCHANGED <<own, form, ready, word, paper, wrote>>
        BY <1>0, <1>7 DEF BeginWriting, Writes, ShmTypeOK
    <2>3. wrote[w] = 0
        BY <1>0, <2>2 DEF Stage
    <2>4. \A i \in 1..wrote'[w] : word'[own'[w]][i] = paper'[w]
        BY <2>2, <2>3
    <2> QED BY <1>0, <1>7, <2>1, <2>2, <2>4 DEF Stage
<1>8. CASE u = w /\ WriteWord(w)
    <2>0. g \in Segment
        BY <1>8, OwnSegment DEF WriteWord, Writes
    <2>1. /\ wpc[w] = "writing" /\ wpc'[w] = "writing"
          /\ wrote[w] \in 0..(Words - 1) /\ wrote'[w] = wrote[w] + 1
          /\ UNCHANGED <<own, form, ready, gen, paper>>
        BY <1>0, <1>8 DEF WriteWord, Writes, ShmTypeOK
    <2>2. word'[g] = [word[g] EXCEPT ![wrote[w] + 1] = paper[w]]
        BY <1>0, <1>8, <2>0 DEF WriteWord, ShmTypeOK
    <2>3. word[g] \in [Word -> Content \cup {Zeros}]
        BY <1>0, <2>0 DEF ShmTypeOK
    <2>4. \A i \in 1..(wrote[w] + 1) : word'[g][i] = paper[w]
        <3>1. \A i \in 1..wrote[w] : word[g][i] = paper[w]
            BY <1>0, <2>1 DEF Stage
        <3> QED BY <2>1, <2>2, <2>3, <3>1 DEF Word
    <2> QED BY <1>0, <1>8, <2>1, <2>4 DEF Stage
<1>9. CASE u = w /\ WriteDigest(w)
    <2>0. g \in Segment
        BY <1>9, OwnSegment DEF WriteDigest, Writes
    <2>1. /\ wpc[w] = "writing" /\ wpc'[w] = "written" /\ wrote[w] = Words
          /\ head'[g] = paper[w]
          /\ UNCHANGED <<own, form, ready, gen, word, paper>>
        BY <1>0, <1>9, <2>0 DEF WriteDigest, Writes, ShmTypeOK
    <2> QED BY <1>0, <1>9, <2>1 DEF Stage, Word
<1>10. CASE u = w /\ EndWriting(w)
    <2>1. gen'[g] % 2 = 0
        BY <1>10, OwnGeneration DEF EndWriting, Writes
    <2>2. /\ wpc[w] = "written" /\ wpc'[w] = "stable"
          /\ UNCHANGED <<own, form, ready, word, head, paper>>
        BY <1>0, <1>10 DEF EndWriting, Writes, ShmTypeOK
    <2> QED BY <1>0, <1>10, <2>1, <2>2 DEF Stage
<1>11. CASE u = w /\ Offer(w)
    <2>1. /\ wpc[w] = "stable" /\ wpc'[w] = "idle"
          /\ UNCHANGED <<own, form, gen>>
        BY <1>0, <1>11 DEF Offer, Writes, ShmTypeOK
    <2> QED BY <1>0, <1>11, <2>1 DEF Stage
<1>12. CASE u = w /\ Drop(w)
    <2>1. /\ wpc[w] = "idle" /\ wpc'[w] = "dropping"
          /\ UNCHANGED <<own, form, gen>>
        BY <1>0, <1>12 DEF Drop, Writes, ShmTypeOK
    <2> QED BY <1>0, <1>12, <2>1 DEF Stage
<1> QED BY <1>1, <1>2, <1>3, <1>4, <1>5, <1>6, <1>7, <1>8, <1>9, <1>10, <1>11, <1>12
        DEF WriterStep

\* The words and the digest change only between the two generations, and the
\* flag is raised only after them.
LEMMA OwnPayload ==
    ASSUME IInv, NEW w \in Writer, WriterStep(w), wpc[w] # "absent"
    PROVE  /\ wpc[w] # "writing" => word'[own[w]] = word[own[w]] /\ head'[own[w]] = head[own[w]]
           /\ ready'[own[w]] /\ ~ready[own[w]] => wpc[w] = "stable"
           /\ ready'[own[w]] => wpc[w] \notin {"withdrawn", "writing", "written"}
<1>0. ShmTypeOK /\ own[w] \in Segment /\ Stage(w)
    BY OwnSegment DEF IInv, WriterKnows
<1>1. ASSUME wpc[w] # "writing"
      PROVE  UNCHANGED <<word, head>>
    BY <1>1 DEF WriterStep, Writes, Create, SetLength, WriteHeader, CreateFails, Gone, Withdraw,
       BeginWriting, WriteWord, WriteDigest, EndWriting, Offer, Drop, Unlink, Die, segment
<1>2. ready'[own[w]] => wpc[w] = "stable" \/ ready[own[w]]
    BY <1>0 DEF WriterStep, Writes, Create, SetLength, WriteHeader, CreateFails, Gone, Withdraw,
       BeginWriting, WriteWord, WriteDigest, EndWriting, Offer, Drop, Unlink, Die, segment, ShmTypeOK
<1> QED BY <1>0, <1>1, <1>2 DEF Stage

LEMMA WriterKeepsReady ==
    ASSUME IInv, NEW w \in Writer, WriterStep(w)
    PROVE  ReadyIsWhole'
<1>0. ShmTypeOK /\ ReadyIsWhole
    BY DEF IInv
<1> SUFFICES ASSUME NEW g \in Segment, ready'[g]
             PROVE  gen'[g] % 2 = 0 /\ \E c \in Content : Holds(g, c)'
    BY DEF ReadyIsWhole
<1>1. CASE g # own[w]
    <2>1. /\ ready[g] /\ gen'[g] = gen[g] /\ head'[g] = head[g] /\ word'[g] = word[g]
        BY <1>1, OtherSegments
    <2> QED BY <1>0, <2>1 DEF ReadyIsWhole, Holds
<1>2. CASE g = own[w]
    <2>1. wpc[w] # "absent"
        BY <1>2 DEF IInv, OneWriter, Segment
    <2>2. Stage(w) /\ wpc[w] \notin {"withdrawn", "writing", "written"}
        BY <1>2, <2>1, OwnPayload DEF IInv, WriterKnows
    <2>3. word'[g] = word[g] /\ head'[g] = head[g]
        BY <1>2, <2>1, <2>2, OwnPayload
    <2>4. gen'[g] = gen[g]
        BY <1>2, <2>1, <2>2, OwnGeneration DEF BeginWriting, EndWriting, Writes
    <2>5. CASE ready[g]
        BY <1>0, <2>3, <2>4, <2>5 DEF ReadyIsWhole, Holds
    <2>6. CASE ~ready[g]
        <3>1. wpc[w] = "stable"
            BY <1>2, <2>1, <2>6, OwnPayload
        <3>2. gen[g] % 2 = 0 /\ Holds(g, paper[w])
            BY <1>2, <2>2, <3>1 DEF Stage, Holds
        <3>3. paper[w] \in Content
            BY <1>0 DEF ShmTypeOK
        <3> QED BY <2>3, <2>4, <3>2, <3>3 DEF Holds
    <2> QED BY <2>5, <2>6
<1> QED BY <1>1, <1>2

\* The form of a segment only grows, and a headed one stays so.
LEMMA FormGrows ==
    ASSUME IInv, NEW w \in Writer, WriterStep(w), NEW g \in Segment
    PROVE  /\ form[g] # "bare" => form'[g] # "bare"
           /\ form[g] = "headed" => form'[g] = "headed"
<1>0. ShmTypeOK /\ Stage(w)
    BY DEF IInv, WriterKnows
<1>1. CASE SetLength(w)
    <2>1. form[own[w]] = "bare" /\ own[w] \in Segment
        BY <1>0, <1>1, OwnSegment DEF SetLength, Writes, Stage
    <2> QED BY <1>0, <1>1, <2>1 DEF SetLength, ShmTypeOK
<1>2. CASE WriteHeader(w)
    BY <1>0, <1>2 DEF WriteHeader, ShmTypeOK
<1>3. CASE ~SetLength(w) /\ ~WriteHeader(w)
    <2>1. UNCHANGED form
        BY <1>3 DEF WriterStep, Create, CreateFails, Gone, Withdraw, BeginWriting, WriteWord,
                    WriteDigest, EndWriting, Offer, Drop, Unlink, Die, segment
    <2> QED BY <2>1
<1> QED BY <1>1, <1>2, <1>3

LEMMA WriterKeepsReaders ==
    ASSUME IInv, NEW w \in Writer, WriterStep(w)
    PROVE  ReaderKnows'
<1>0. ShmTypeOK /\ ReaderKnows
    BY DEF IInv
<1> SUFFICES ASSUME NEW r \in Reader PROVE Found(r)'
    BY DEF ReaderKnows
<1>1. Found(r) /\ UNCHANGED <<rpc, desc, map, snap, readTo, since>>
    BY <1>0, WriterLeavesReaders DEF ReaderKnows, reader
<1>2. CASE rpc[r] = "closed"
    BY <1>1, <1>2 DEF Found, Looked
<1>3. CASE rpc[r] # "closed"
    <2> DEFINE g == map[r]
    <2>0. g \in Segment
        BY <1>0, <1>1, <1>3 DEF Found, ShmTypeOK, Segment
    <2>1. /\ form'[g] # "bare"
          /\ rpc[r] # "mapped" => form'[g] = "headed"
        BY <1>1, <1>3, <2>0, FormGrows DEF Found
    <2>2. CASE g # own[w]
        <3>1. gen'[g] = gen[g] /\ begun'[g] = begun[g] /\ head'[g] = head[g] /\ word'[g] = word[g]
            BY <2>0, <2>2, OtherSegments
        <3> QED BY <1>1, <2>1, <3>1 DEF Found, Holds
    <2>3. CASE g = own[w]
        <3>0. wpc[w] # "absent" /\ Stage(w)
            BY <2>0, <2>3 DEF IInv, OneWriter, Segment, WriterKnows
        <3>1. CASE rpc[r] \notin Looked
            BY <1>1, <2>1, <3>1 DEF Found, Looked
        <3>2. CASE rpc[r] \in Looked /\ begun'[g] # since[r]
            <4>1. begun'[g] \in {begun[g], begun[g] + 1}
                BY <2>3, <3>0, OwnGeneration
            <4>2. since[r] <= begun'[g]
                BY <1>0, <1>1, <2>0, <3>2, <4>1 DEF Found, ShmTypeOK
            <4> QED BY <1>1, <2>1, <3>2, <4>2 DEF Found
        <3>3. CASE rpc[r] \in Looked /\ begun'[g] = since[r]
            <4>1. ~BeginWriting(w)
                <5>1. BeginWriting(w) => begun'[g] = begun[g] + 1
                    BY <2>3, <3>0, OwnGeneration
                <5> QED BY <1>0, <1>1, <2>0, <3>3, <5>1 DEF Found, ShmTypeOK
            <4>2. begun'[g] = begun[g]
                BY <2>3, <3>0, <4>1, OwnGeneration
            <4>3. gen[g] = snap[r] /\ gen[g] % 2 = 0
                BY <1>1, <3>3, <4>2 DEF Found
            <4>4. wpc[w] \notin {"writing", "written"}
                BY <2>3, <3>0, <4>3 DEF Stage
            <4>5. gen'[g] = gen[g]
                BY <2>3, <3>0, <4>1, <4>4, OwnGeneration DEF EndWriting, Writes
            <4>6. word'[g] = word[g] /\ head'[g] = head[g]
                BY <2>3, <3>0, <4>4, OwnPayload
            <4> QED BY <1>1, <2>1, <4>2, <4>5, <4>6 DEF Found, Holds
        <3> QED BY <3>1, <3>2, <3>3
    <2> QED BY <2>2, <2>3
<1> QED BY <1>2, <1>3

-----------------------------------------------------------------------------
(* The readers' steps and the clean-up. *)

\* A reader changes nothing but what is its own.
LEMMA ReaderIsAlone ==
    ASSUME IInv, NEW r \in Reader, ReaderStep(r)
    PROVE  /\ UNCHANGED Others
           /\ \A q \in Reader : q # r =>
                 /\ rpc'[q] = rpc[q] /\ desc'[q] = desc[q] /\ map'[q] = map[q]
                 /\ snap'[q] = snap[q] /\ readTo'[q] = readTo[q] /\ since'[q] = since[q]
<1>1. UNCHANGED Others
    BY DEF ReaderStep, Open, Checks, CheckReady, CheckGeneration, CheckHeader, DigestWord,
       DigestDone, CheckAgain, CheckReadyAgain, Close, Others
<1>2. ASSUME NEW q \in Reader, q # r
      PROVE  rpc'[q] = rpc[q] /\ desc'[q] = desc[q] /\ map'[q] = map[q]
    BY <1>2 DEF IInv, ShmTypeOK, ReaderStep, Open, Checks, Goes, Ends, CheckReady, CheckGeneration,
       CheckHeader, DigestWord, DigestDone, CheckAgain, CheckReadyAgain, Close
<1>3. ASSUME NEW q \in Reader, q # r
      PROVE  snap'[q] = snap[q] /\ readTo'[q] = readTo[q] /\ since'[q] = since[q]
    BY <1>3 DEF IInv, ShmTypeOK, ReaderStep, Open, Checks, Goes, Ends, CheckReady, CheckGeneration,
       CheckHeader, DigestWord, DigestDone, CheckAgain, CheckReadyAgain, Close
<1> QED BY <1>1, <1>2, <1>3

\* A check that passes only moves the reader on.
LEMMA Passing ==
    ASSUME IInv, NEW r \in Reader, NEW from, NEW to, NEW passes \in BOOLEAN,
           Checks(r, from, passes, to)
    PROVE  /\ rpc[r] = from
           /\ \/ rpc'[r] = "closed"
              \/ /\ passes /\ rpc'[r] = to
                 /\ UNCHANGED <<desc, map, snap, readTo, since, Others>>
<1>0. rpc \in [Reader -> ReaderLabel] /\ rpc[r] = from
    BY DEF IInv, ShmTypeOK, Checks
<1>1. CASE passes
    BY <1>0, <1>1 DEF Checks, Goes
<1>2. CASE ~passes
    BY <1>0, <1>2 DEF Checks, Ends
<1> QED BY <1>0, <1>1, <1>2

LEMMA ReaderFinds ==
    ASSUME IInv, NEW r \in Reader, ReaderStep(r)
    PROVE  Found(r)'
<1> DEFINE g == map[r]
<1>0. ShmTypeOK /\ Found(r) /\ SegmentsKept
    BY DEF IInv, ReaderKnows
<1>a. UNCHANGED <<segment, writer, name>>
    BY ReaderIsAlone DEF Others
<1>b. rpc[r] # "closed" => g \in Segment
    BY <1>0 DEF Found, ShmTypeOK, Segment
<1>c. rpc'[r] = "closed" => Found(r)'
    <2>1. rpc'[r] = "closed" => readTo'[r] = 0
        BY <1>0 DEF Found, ShmTypeOK, ReaderStep, Open, Checks, Goes, Ends, CheckReady,
           CheckGeneration, CheckHeader, DigestWord, DigestDone, CheckAgain, CheckReadyAgain, Close
    <2> QED BY <2>1 DEF Found, Looked
<1>1. ASSUME NEW d \in issued, NEW h \in Generation, Open(r, d, h)
      PROVE  Found(r)'
    <2>1. rpc'[r] = "mapped" /\ readTo'[r] = 0 /\ map'[r] = name /\ name # 0 /\ form[name] # "bare"
        BY <1>0, <1>1 DEF Open, Found, ShmTypeOK
    <2> QED BY <1>a, <2>1 DEF Found, Looked, segment
<1>2. CASE CheckReady(r)
    <2>0. rpc[r] = "mapped"
        BY <1>2 DEF CheckReady, Checks
    <2>1. (form[g] = "headed" /\ ready[g]) \in BOOLEAN
        BY <1>0, <1>b, <2>0 DEF ShmTypeOK
    <2>2. \/ rpc'[r] = "closed"
          \/ /\ form[g] = "headed" /\ rpc'[r] = "ready"
             /\ UNCHANGED <<desc, map, snap, readTo, since>>
        BY <1>2, <2>1, Passing DEF CheckReady
    <2> QED BY <1>0, <1>a, <1>c, <2>0, <2>2 DEF Found, Looked, segment
<1>3. CASE CheckGeneration(r)
    <2>1. CASE Ends(r)
        BY <1>0, <1>c, <2>1 DEF Ends, ShmTypeOK
    <2>2. CASE ~Ends(r)
        <3>1. /\ rpc[r] = "ready" /\ rpc'[r] = "header" /\ snap'[r] = gen[g]
              /\ since'[r] = begun[g] /\ gen[g] % 2 = 0 /\ UNCHANGED <<map, readTo>>
            BY <1>0, <1>3, <2>2 DEF CheckGeneration, Goes, ShmTypeOK
        <3>2. g \in Segment /\ form[g] = "headed"
            BY <1>0, <1>b, <3>1 DEF Found
        <3>3. Turns(gen[g], begun[g]) /\ begun[g] \in Nat
            BY <1>0, <3>2 DEF SegmentsKept, ShmTypeOK
        <3> QED BY <1>0, <1>a, <3>1, <3>2, <3>3 DEF Found, Looked, segment
    <2> QED BY <2>1, <2>2
<1>4. CASE CheckHeader(r)
    <2>1. /\ rpc[r] = "header"
          /\ \/ rpc'[r] = "closed"
             \/ /\ head[g] = desc[r].content /\ rpc'[r] = "words"
                /\ UNCHANGED <<desc, map, snap, readTo, since>>
        BY <1>4, Passing DEF CheckHeader
    <2>2. readTo[r] = 0
        BY <1>0, <2>1 DEF Found
    <2>3. rpc'[r] = "words" => Found(r)'
        BY <1>0, <1>a, <2>1, <2>2 DEF Found, Looked, segment
    <2> QED BY <1>c, <2>1, <2>3
<1>5. CASE DigestWord(r)
    <2>1. CASE Ends(r)
        BY <1>0, <1>c, <2>1 DEF Ends, ShmTypeOK
    <2>2. CASE ~Ends(r)
        <3>1. /\ rpc[r] = "words" /\ readTo'[r] = readTo[r] + 1 /\ readTo[r] \in Nat
              /\ word[g][readTo[r] + 1] = desc[r].content
              /\ UNCHANGED <<rpc, desc, map, snap, since>>
            BY <1>0, <1>5, <2>2 DEF DigestWord, ShmTypeOK
        <3>2. (\A i \in 1..readTo[r] : word[g][i] = desc[r].content)
                => \A i \in 1..readTo'[r] : word[g][i] = desc[r].content
            BY <3>1
        <3> QED BY <1>0, <1>a, <3>1, <3>2 DEF Found, Looked, segment
    <2> QED BY <2>1, <2>2
<1>6. CASE DigestDone(r)
    <2>1. /\ rpc[r] = "words" /\ readTo[r] = Words
          /\ \/ rpc'[r] = "closed"
             \/ rpc'[r] = "again" /\ UNCHANGED <<desc, map, snap, readTo, since>>
        BY <1>6, Passing DEF DigestDone
    <2>2. begun[g] = since[r] => Holds(g, desc[r].content)
        BY <1>0, <2>1 DEF Found, Holds, Word
    <2>3. rpc'[r] = "again" => Found(r)'
        BY <1>0, <1>a, <2>1, <2>2 DEF Found, Looked, segment, Holds
    <2> QED BY <1>c, <2>1, <2>3
<1>7. CASE CheckAgain(r)
    <2>1. /\ rpc[r] = "again"
          /\ \/ rpc'[r] = "closed"
             \/ rpc'[r] = "last" /\ UNCHANGED <<desc, map, snap, readTo, since>>
        BY <1>7, Passing DEF CheckAgain
    <2>2. rpc'[r] = "last" => Found(r)'
        BY <1>0, <1>a, <2>1 DEF Found, Looked, segment, Holds
    <2> QED BY <1>c, <2>1, <2>2
<1>8. CASE CheckReadyAgain(r)
    <2>0. rpc[r] = "last"
        BY <1>8 DEF CheckReadyAgain, Checks
    <2>1. ready[g] \in BOOLEAN
        BY <1>0, <1>b, <2>0 DEF ShmTypeOK
    <2>2. \/ rpc'[r] = "closed"
          \/ rpc'[r] = "open" /\ UNCHANGED <<desc, map, snap, readTo, since>>
        BY <1>8, <2>1, Passing DEF CheckReadyAgain
    <2>3. rpc'[r] = "open" => Found(r)'
        BY <1>0, <1>a, <2>0, <2>2 DEF Found, Looked, segment, Holds
    <2> QED BY <1>c, <2>2, <2>3
<1>9. CASE Close(r)
    BY <1>0, <1>c, <1>9 DEF Close, Ends, ShmTypeOK
<1> QED BY <1>1, <1>2, <1>3, <1>4, <1>5, <1>6, <1>7, <1>8, <1>9 DEF ReaderStep

LEMMA ReaderKeepsInv ==
    ASSUME IInv, NEW r \in Reader, ReaderStep(r)
    PROVE  IInv'
<1>1. ShmTypeOK'
    BY ReaderTypes
<1>2. UNCHANGED <<name, segment, writer>>
    BY ReaderIsAlone DEF Others
<1>3. OneWriter' /\ NameIsOwned' /\ SegmentsKept'
    BY <1>2 DEF IInv, OneWriter, NameIsOwned, SegmentsKept, Fresh, segment, writer
<1>4. WriterKnows' /\ ReadyIsWhole'
    BY <1>2 DEF IInv, WriterKnows, Stage, Fresh, ReadyIsWhole, Holds, segment, writer
<1>5. ASSUME NEW q \in Reader PROVE Found(q)'
    <2>1. CASE q = r
        BY <2>1, ReaderFinds
    <2>2. CASE q # r
        <3>1. /\ rpc'[q] = rpc[q] /\ desc'[q] = desc[q] /\ map'[q] = map[q]
              /\ snap'[q] = snap[q] /\ readTo'[q] = readTo[q] /\ since'[q] = since[q]
            BY <2>2, ReaderIsAlone
        <3>2. Found(q)
            BY DEF IInv, ReaderKnows
        <3> QED BY <1>2, <3>1, <3>2 DEF Found, Holds, segment
    <2> QED BY <2>1, <2>2
<1> QED BY <1>1, <1>3, <1>4, <1>5 DEF IInv, ReaderKnows

LEMMA WriterKeepsInv ==
    ASSUME IInv, NEW w \in Writer, WriterStep(w)
    PROVE  IInv'
BY WriterTypes, WriterKeepsOwners, WriterKeepsStages, WriterKeepsSegments, WriterKeepsReady,
   WriterKeepsReaders DEF IInv

LEMMA CleanUpKeepsInv == IInv /\ CleanUp => IInv'
<1> SUFFICES ASSUME IInv, CleanUp PROVE IInv'
    OBVIOUS
<1>0. /\ name' = 0 /\ (\A w \in Writer : own[w] # name)
      /\ UNCHANGED <<segment, writer, reader>>
    BY DEF CleanUp
<1>1. ShmTypeOK'
    BY <1>0 DEF IInv, ShmTypeOK, segment, writer, reader
<1>2. OneWriter' /\ NameIsOwned' /\ SegmentsKept'
    BY <1>0 DEF IInv, ShmTypeOK, OneWriter, NameIsOwned, SegmentsKept, Fresh, segment, writer
<1>3. WriterKnows' /\ ReadyIsWhole'
    BY <1>0 DEF IInv, WriterKnows, Stage, Fresh, ReadyIsWhole, Holds, segment, writer
<1>4. ReaderKnows'
    BY <1>0 DEF IInv, ReaderKnows, Found, Holds, segment, reader
<1> QED BY <1>1, <1>2, <1>3, <1>4 DEF IInv

LEMMA StutterKeepsInv == IInv /\ UNCHANGED vars => IInv'
<1> SUFFICES ASSUME IInv, UNCHANGED vars PROVE IInv'
    OBVIOUS
<1>1. ShmTypeOK'
    BY DEF IInv, ShmTypeOK, vars, segment, writer, reader
<1>2. OneWriter' /\ NameIsOwned' /\ SegmentsKept'
    BY DEF IInv, OneWriter, NameIsOwned, SegmentsKept, Fresh, vars, segment, writer
<1>3. WriterKnows' /\ ReadyIsWhole'
    BY DEF IInv, WriterKnows, Stage, Fresh, ReadyIsWhole, Holds, vars, segment, writer
<1>4. ReaderKnows'
    BY DEF IInv, ReaderKnows, Found, Holds, vars, segment, reader
<1> QED BY <1>1, <1>2, <1>3, <1>4 DEF IInv

\* The invariant of the seqlock holds in every state.
THEOREM ShmInvariant == ShmSpec => []IInv
<1>1. IInv /\ [ShmNext]_vars => IInv'
    BY WriterKeepsInv, ReaderKeepsInv, CleanUpKeepsInv, StutterKeepsInv DEF ShmNext
<1> QED BY InitInv, <1>1, PTL DEF ShmSpec

-----------------------------------------------------------------------------

\* Every variable keeps its type, and the generation its width, for any number
\* of publications (the generation word of crates/eira-ipc/src/shm.rs).
THEOREM ShmTypeCorrect == ShmSpec => []ShmTypeOK
<1>1. IInv => ShmTypeOK
    BY DEF IInv
<1> QED BY <1>1, ShmInvariant, PTL

\* A segment that says it is ready is whole, whenever its writer dies
\* (SharedMemoryWriter::publish).
THEOREM WholeWhenReady == ShmSpec => []ReadyIsWhole
<1>1. IInv => ReadyIsWhole
    BY DEF IInv
<1> QED BY <1>1, ShmInvariant, PTL

\* Nobody takes the name of a live writer's segment away
\* (SharedMemoryWriter::create, unlink_segment).
THEOREM NameKept == ShmSpec => []NameIsOwned
<1>1. IInv => NameIsOwned
    BY DEF IInv
<1> QED BY <1>1, ShmInvariant, PTL

\* The payload a reader has verified stays until the next publication begins
\* (SharedMemoryReader::open).
THEOREM ViewDescribed == ShmSpec => []ViewIsDescribed
<1>1. IInv => ViewIsDescribed
    BY DEF IInv, ReaderKnows, Found, ViewIsDescribed
<1> QED BY <1>1, ShmInvariant, PTL

\* The second look at the generation finds every publication in between, up to
\* a whole turn of the counter (SharedMemoryReader::open).
THEOREM RaceFound == ShmSpec => RaceIsFound
<1> DEFINE Overlooks(r) ==
              /\ rpc[r] = "again" /\ rpc'[r] = "last"
              /\ begun[map[r]] - since[r] < HalfWidth
<1>1. ASSUME IInv, [ShmNext]_vars, NEW r \in Reader, Overlooks(r)
      PROVE  begun[map[r]] = since[r]
    <2>0. ShmTypeOK /\ Found(r)
        BY <1>1 DEF IInv, ReaderKnows
    <2>1. ReaderStep(r)
        <3>1. CASE \E w \in Writer : WriterStep(w)
            BY <1>1, <3>1, WriterLeavesReaders DEF reader
        <3>2. CASE CleanUp \/ UNCHANGED vars
            BY <1>1, <3>2 DEF CleanUp, vars, reader
        <3>3. ASSUME NEW q \in Reader, ReaderStep(q), q # r PROVE FALSE
            <4>1. rpc'[r] = rpc[r]
                BY <1>1, <3>3, ReaderIsAlone
            <4> QED BY <1>1, <4>1
        <3> QED BY <1>1, <3>1, <3>2, <3>3 DEF ShmNext
    <2>2. CheckAgain(r)
        BY <1>1, <2>0, <2>1 DEF ReaderStep, Open, Checks, Goes, Ends, CheckReady, CheckGeneration,
           CheckHeader, DigestWord, DigestDone, CheckReadyAgain, Close, ShmTypeOK
    <2>3. gen[map[r]] = snap[r]
        BY <1>1, <2>2, Passing DEF CheckAgain
    <2>4. map[r] \in Segment
        BY <1>1, <2>0 DEF Found, ShmTypeOK, Segment
    <2>5. /\ gen[map[r]] \in Nat /\ begun[map[r]] \in Nat /\ since[r] \in Nat
          /\ Turns(gen[map[r]], begun[map[r]])
        BY <1>1, <2>0, <2>4, Defaults DEF ShmTypeOK, Generation, IInv, SegmentsKept
    <2>6. snap[r] % 2 = 0 /\ Turns(snap[r], since[r]) /\ since[r] <= begun[map[r]]
        BY <1>1, <2>0 DEF Found, Looked
    <2>7. gen[map[r]] % 2 = 0 /\ Turns(gen[map[r]], since[r])
        BY <2>3, <2>6
    <2> HIDE DEF Turns
    <2> QED BY <1>1, <2>5, <2>6, <2>7, SameGeneration
<1>2. IInv /\ [ShmNext]_vars
        => [\A r \in Reader : Overlooks(r) => begun[map[r]] = since[r]]_vars
    BY <1>1
<1> QED BY <1>2, ShmInvariant, PTL DEF ShmSpec, RaceIsFound
=============================================================================
