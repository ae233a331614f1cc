---------------------------- MODULE StreamProofs ----------------------------
(***************************************************************************)
(* Theorems about the programs that talk through streams of bytes: first   *)
(* SortService, for any arguments and any size of the buffers, then Pipes, *)
(* for any size of messages and pipes; whoever is killed when.             *)
(***************************************************************************)
EXTENDS SortService, Pipes, SequenceTheorems, WellFoundedInduction, TLAPS

(* Words that fit in temp with their NUL: all that ever travel.            *)
Short == {w \in Word : Len(w) < TEMP}
Message == Nat \cup Short

Asking == client \in {"count", "send", "read count"}
Working == server \in {"count", "items", "bubble", "answer"}
Answering == server \in {"write", "closed"}
Room == Smaller(argc1, MAXITEMS)

Types ==
    /\ args \in Seq(Words) /\ argc1 >= 1
    /\ temp \in [1..TEMP -> Nat] /\ zeroed \in BOOLEAN
    /\ client \in {"count", "send", "read count", "print", "done", "mismatch", "failed"}
    /\ server \in {"count", "items", "bubble", "answer", "write", "closed", "killed", "segv"}
    /\ k \in 1..(argc1 + 1) /\ i \in 1..(MAXITEMS + 1) /\ n \in 0..argc1
    /\ sent \in Seq(Short) /\ printed \in Seq(Short) /\ ptr \in Seq(Short)
    /\ Len(ptr) <= MAXITEMS
    /\ up \in Seq(Message) /\ down \in Seq(Message)
    /\ sorted \in BOOLEAN /\ end \in {"open", "fin", "rst"}

(* How far the client has come.                                            *)
Progress ==
    /\ client = "count" => k = 1 /\ sent = <<>>
    /\ client = "send" => Len(sent) = k - 1
    /\ client \in {"read count", "print", "done", "mismatch"} => Len(sent) = argc1
    /\ Len(sent) <= argc1
    /\ Asking => printed = <<>>
    /\ client = "print" => Len(printed) = k - 1
    /\ client = "done" => Len(printed) = argc1
    /\ client \in {"print", "done"} => argc1 <= MAXITEMS

(* What temp holds.                                                        *)
Buffer ==
    /\ sent # <<>> => \E x \in 1..TEMP : temp[x] = 0
    /\ sent # <<>> /\ (client \in {"send", "read count"} \/ (server = "segv" /\ client = "print"))
       => CString(temp) = sent[Len(sent)]
    /\ client \in {"count", "send"} /\ zeroed =>
           \A x \in 1..TEMP : (\A y \in 1..(k - 1) : Len(args[y]) < x) => temp[x] = 0

(* What the client has written and the server not read yet.                *)
Upstream ==
    /\ server = "count" =>
           /\ ptr = <<>>
           /\ client = "count" => up = <<>>
           /\ client # "count" => /\ Len(up) = Len(sent) + 1 /\ up[1] = argc1
                                  /\ \A x \in 1..Len(sent) : up[x + 1] = sent[x]
    /\ server \in {"items", "bubble", "answer", "write"} =>
           client # "count" /\ n = argc1 /\ Len(ptr) + Len(up) = Len(sent)
    /\ server = "items" =>
           /\ \A x \in 1..Len(ptr) : ptr[x] = sent[x]
           /\ \A x \in 1..Len(up) : up[x] = sent[Len(ptr) + x]
    /\ end = "open" <=> ~ServerGone
    /\ end = "fin" => Len(sent) <= MAXITEMS

(* The items are a rearrangement of the first words sent.                  *)
Rearranged ==
    \E f \in [1..Len(ptr) -> 1..Len(ptr)] :
        /\ \A x, y \in 1..Len(ptr) : f[x] = f[y] => x = y
        /\ \A x \in 1..Len(ptr) : ptr[x] = sent[f[x]]

Ordered(s, m) == \A x \in 1..(m - 1) : ~Greater(s[x], s[x + 1])

(* What bubble() keeps, and what it has made in the end.                   *)
Bubble ==
    /\ server \in {"count", "items"} => i = 1 /\ sorted = TRUE
    /\ server = "bubble" \/ server = "answer" \/ Answering =>
           Len(ptr) = Room /\ Len(ptr) <= Len(sent) /\ Rearranged
    /\ server = "bubble" => /\ i = 1 \/ i + 1 <= Len(ptr)
                            /\ sorted => Ordered(ptr, i)
    /\ server = "answer" \/ Answering => Ordered(ptr, Len(ptr))

(* What the server has written, and the client printed.                    *)
Downstream ==
    /\ Working \/ server = "segv" => down = <<>>
    /\ Working => Asking
    /\ Asking /\ down # <<>> => /\ down[1] = Room
                                /\ \A x \in 2..Len(down) : down[x] \in Short
    /\ client = "print" => \A x \in 1..Len(down) : down[x] \in Short
    /\ Answering => i <= Len(ptr) + 1
    /\ Answering /\ Asking => /\ Len(down) = i
                              /\ \A x \in 1..(i - 1) : down[x + 1] = ptr[x]
    /\ Answering /\ client = "print" =>
           /\ Len(printed) + Len(down) = i - 1
           /\ \A x \in 1..Len(down) : down[x] = ptr[Len(printed) + x]
    /\ Answering /\ client \in {"print", "done"} =>
           Len(printed) <= Len(ptr) /\ \A x \in 1..Len(printed) : printed[x] = ptr[x]
    /\ server = "closed" => i = Len(ptr) + 1

(* The process that dies of a memory fault has written nothing.            *)
Faulted ==
    server = "segv" =>
        /\ argc1 = 1 \/ argc1 >= MAXITEMS
        /\ argc1 = 1 /\ client \in {"print", "done"} /\ printed # <<>> => printed[1] = sent[1]

Inv == /\ Types /\ SentAsGiven /\ Progress /\ Buffer /\ Upstream
       /\ Bubble /\ Downstream /\ Faulted

-----------------------------------------------------------------------------
(* Words in buffers.                                                       *)

(* A set of numbers that is not empty has a least element.                 *)
LEMMA Least ==
    ASSUME NEW S \in SUBSET Nat, S # {}
    PROVE  \E x \in S : \A y \in S : x <= y
<1> DEFINE R == OpToRel(<, Nat)
<1>1. \A x, y \in Nat : x < y => <<x, y>> \in R
  BY DEF OpToRel
<1>2. IsWellFoundedOn(R, Nat)
  BY NatLessThanWellFounded
<1> HIDE DEF R
<1>3. \E x \in S : \A y \in S : <<y, x>> \notin R
  BY <1>2, WFMin
<1>4. PICK x \in S : \A y \in S : <<y, x>> \notin R
  BY <1>3
<1>5. \A y \in S : ~(y < x)
  BY <1>1, <1>4
<1> QED BY <1>5

(* A buffer with a NUL holds a string: what comes before the first of them.*)
LEMMA Terminated ==
    ASSUME NEW b \in [1..TEMP -> Nat], \E x \in 1..TEMP : b[x] = 0
    PROVE  \E stop \in 1..TEMP :
               /\ b[stop] = 0 /\ \A y \in 1..(stop - 1) : b[y] # 0
               /\ CString(b) = SubSeq(b, 1, stop - 1)
               /\ CString(b) \in Short /\ Len(CString(b)) = stop - 1
               /\ \A y \in 1..(stop - 1) : CString(b)[y] = b[y]
<1> DEFINE Stop(x) == b[x] = 0 /\ \A y \in 1..(x - 1) : b[y] # 0
           stop == CHOOSE x \in 1..TEMP : Stop(x)
<1>1. \E x \in 1..TEMP : Stop(x)
  <2> DEFINE S == {x \in 1..TEMP : b[x] = 0}
  <2>1. PICK x \in S : \A y \in S : x <= y
    <3>1. S \in SUBSET Nat /\ S # {}
      BY SizeAssumption
    <3> QED BY <3>1, Least
  <2>2. \A y \in 1..(x - 1) : b[y] # 0
    BY <2>1, SizeAssumption
  <2> QED BY <2>1, <2>2
<1>2. stop \in 1..TEMP /\ Stop(stop)
  BY <1>1, Zenon
<1>3. CString(b) = SubSeq(b, 1, stop - 1)
  BY DEF CString
<1> HIDE DEF stop
<1>4. b \in Seq(Nat) /\ Len(b) = TEMP
  BY SizeAssumption
<1>5. /\ SubSeq(b, 1, stop - 1) \in Seq(Nat) /\ Len(SubSeq(b, 1, stop - 1)) = stop - 1
      /\ \A y \in 1..(stop - 1) : SubSeq(b, 1, stop - 1)[y] = b[y]
  BY <1>2, <1>4, SubSeqProperties, SizeAssumption
<1>6. CString(b) \in Short
  BY <1>2, <1>3, <1>5, SizeAssumption DEF Short, Word
<1> QED BY <1>2, <1>3, <1>5, <1>6

(* A buffer holds the word that it begins with, if a NUL comes next.       *)
LEMMA Holds ==
    ASSUME NEW b \in [1..TEMP -> Nat], NEW w \in Short,
           \A x \in 1..Len(w) : b[x] = w[x], b[Len(w) + 1] = 0
    PROVE  CString(b) = w
<1>1. /\ w \in Seq(Nat \ {0}) /\ Len(w) \in Nat /\ Len(w) + 1 \in 1..TEMP
      /\ \A x \in 1..Len(w) : w[x] # 0
  BY SizeAssumption DEF Short, Word
<1>2. PICK stop \in 1..TEMP :
          /\ b[stop] = 0 /\ \A y \in 1..(stop - 1) : b[y] # 0
          /\ CString(b) \in Short /\ Len(CString(b)) = stop - 1
          /\ \A y \in 1..(stop - 1) : CString(b)[y] = b[y]
  BY <1>1, Terminated
<1>3. stop = Len(w) + 1
  <2>1. stop \in Int /\ Len(w) \in Int
    BY <1>1, SizeAssumption
  <2>2. ~(stop < Len(w) + 1)
    BY <1>1, <1>2, <2>1
  <2>3. ~(Len(w) + 1 < stop)
    BY <1>1, <1>2, <2>1
  <2> QED BY <2>1, <2>2, <2>3
<1> QED BY <1>1, <1>2, <1>3, SeqEqual DEF Short, Word

-----------------------------------------------------------------------------
(* The invariant holds when both begin.                                    *)
LEMMA Begins == Init => Inv
<1> SUFFICES ASSUME Init PROVE Inv
  OBVIOUS
<1>1. PICK m \in 1..MaxArgs : args \in [1..m -> Words]
  BY DEF Init
<1>2. args \in Seq(Words) /\ Len(args) = m /\ m \in Nat /\ m >= 1
  BY <1>1, SizeAssumption
<1>3. /\ sent = <<>> /\ printed = <<>> /\ ptr = <<>> /\ up = <<>> /\ down = <<>>
      /\ client = "count" /\ server = "count" /\ k = 1 /\ i = 1 /\ n = 0
      /\ sorted = TRUE /\ end = "open" /\ zeroed \in BOOLEAN
      /\ temp = [x \in 1..TEMP |-> IF zeroed THEN 0 ELSE 1]
  BY DEF Init
<1>4. /\ sent \in Seq(Short) /\ printed \in Seq(Short) /\ ptr \in Seq(Short)
      /\ up \in Seq(Message) /\ down \in Seq(Message)
      /\ Len(sent) = 0 /\ Len(printed) = 0 /\ Len(ptr) = 0
  BY <1>3, EmptySeq
<1>5. Types
  <2>1. temp \in [1..TEMP -> Nat]
    BY <1>3
  <2> QED BY <1>2, <1>3, <1>4, <2>1, SizeAssumption DEF Types, argc1
<1>6. SentAsGiven
  BY <1>4 DEF SentAsGiven
<1>7. Progress
  BY <1>2, <1>3, <1>4 DEF Progress, argc1, Asking
<1>8. Buffer
  BY <1>3 DEF Buffer
<1>9. Upstream
  BY <1>3, <1>4 DEF Upstream, ServerGone
<1>10. Bubble /\ Downstream /\ Faulted
  BY <1>3 DEF Bubble, Downstream, Faulted, Working, Answering, Asking
<1> QED BY <1>5, <1>6, <1>7, <1>8, <1>9, <1>10 DEF Inv

(* Nothing changes.                                                        *)
LEMMA Stutters == ASSUME Inv, UNCHANGED vars PROVE Inv'
<1> USE DEF vars, clientVars, serverVars, buffers
<1>1. Types' /\ Progress'
  <2>1. Types'
    BY DEF Inv, Types, argc1
  <2>2. Progress'
    BY DEF Inv, Progress, argc1, Asking
  <2> QED BY <2>1, <2>2
<1>2. SentAsGiven'
  BY DEF Inv, SentAsGiven, Given
<1>3. Buffer' /\ Faulted'
  BY DEF Inv, Buffer, CString, Faulted, argc1
<1>4. Upstream'
  BY DEF Inv, Upstream, argc1, ServerGone
<1>5. Bubble'
  BY DEF Inv, Bubble, Rearranged, Ordered, Answering, Room, argc1
<1>6. Downstream'
  BY DEF Inv, Downstream, Asking, Working, Answering, Room, argc1
<1> QED BY <1>1, <1>2, <1>3, <1>4, <1>5, <1>6 DEF Inv

(* What the types say of sequences, in the form the provers use it.        *)
LEMMA Lengths ==
    ASSUME Types
    PROVE  /\ argc1 \in Nat /\ argc1 >= 1 /\ k \in Nat /\ i \in Nat
           /\ sent \in Seq(Short) /\ printed \in Seq(Short) /\ ptr \in Seq(Short)
           /\ up \in Seq(Message) /\ down \in Seq(Message)
           /\ Len(ptr) <= MAXITEMS
           /\ Len(sent) \in Nat /\ Len(printed) \in Nat /\ Len(ptr) \in Nat
           /\ Len(up) \in Nat /\ Len(down) \in Nat
           /\ \A x \in 1..Len(sent) : sent[x] \in Short
           /\ \A x \in 1..Len(ptr) : ptr[x] \in Short
           /\ Room \in 1..argc1 /\ Room <= MAXITEMS
           /\ argc1 <= MAXITEMS => Room = argc1
           /\ argc1 > MAXITEMS => Room = MAXITEMS
           /\ up = <<>> <=> Len(up) = 0
           /\ down = <<>> <=> Len(down) = 0
           /\ sent = <<>> <=> Len(sent) = 0
           /\ printed = <<>> <=> Len(printed) = 0
           /\ ptr = <<>> <=> Len(ptr) = 0
<1>1. argc1 \in Nat /\ argc1 >= 1
  BY LenProperties DEF Types, argc1
<1>2. /\ Room \in 1..argc1 /\ Room <= MAXITEMS
      /\ argc1 <= MAXITEMS => Room = argc1
      /\ argc1 > MAXITEMS => Room = MAXITEMS
  BY <1>1, SizeAssumption DEF Room, Smaller
<1>3. k \in Nat /\ i \in Nat
  <2>1. k \in 1..(argc1 + 1) /\ i \in 1..(MAXITEMS + 1)
    BY DEF Types
  <2> QED BY <1>1, <2>1, SizeAssumption
<1> QED BY <1>1, <1>2, <1>3, LenProperties, EmptySeq DEF Types

-----------------------------------------------------------------------------
(* Steps of the server.                                                    *)

(* They leave what only the client knows as it is.                         *)
LEMMA ServerFrame ==
    ASSUME Inv, UNCHANGED clientVars, server' = "segv" => server = "segv" \/ client # "print"
    PROVE  SentAsGiven' /\ Progress' /\ Buffer'
<1> USE DEF clientVars, buffers
<1>1. SentAsGiven'
  BY DEF Inv, SentAsGiven, Given
<1>2. Progress'
  BY DEF Inv, Progress, argc1, Asking
<1>3. Buffer'
  BY DEF Inv, Buffer, CString
<1> QED BY <1>1, <1>2, <1>3

(* However the server's end is closed, and whatever it has not read.       *)
LEMMA Leaving ==
    ASSUME Inv, ~ServerGone, NEW how \in {"closed", "killed", "segv"}, Leaves(how),
           UNCHANGED <<clientVars, up, down>>,
           how = "closed" => server = "write" /\ i = Len(ptr) + 1,
           how = "segv" => server \in {"items", "bubble"} /\ (argc1 = 1 \/ argc1 >= MAXITEMS)
    PROVE  Inv'
<1> USE DEF Leaves, clientVars, buffers
<1>1. SentAsGiven' /\ Progress' /\ Buffer'
  BY ServerFrame DEF Inv, Downstream, Working, Asking
<1>2. Types'
  BY DEF Inv, Types, argc1
<1>3. Upstream'
  <2>1. ServerGone' /\ end' # "open"
    BY DEF ServerGone
  <2>2. ASSUME up = <<>> PROVE Len(sent) <= MAXITEMS
    <3>1. /\ Types /\ Upstream /\ Progress
          /\ Len(ptr) <= MAXITEMS /\ Len(ptr) \in Nat /\ Len(sent) \in Nat /\ Len(up) = 0
          /\ sent = <<>> => Len(sent) = 0
      BY <2>2, Lengths DEF Inv
    <3>2. CASE server = "count"
      <4>1. client = "count"
        BY <3>1, <3>2 DEF Upstream
      <4>2. Len(sent) = 0
        BY <3>1, <4>1 DEF Progress
      <4> QED BY <4>2, SizeAssumption
    <3>3. CASE server \in {"items", "bubble", "answer", "write"}
      BY <3>1, <3>3 DEF Upstream
    <3> QED BY <3>1, <3>2, <3>3 DEF ServerGone, Types
  <2> QED BY <2>1, <2>2 DEF Upstream, argc1
<1>4. Bubble'
  BY DEF Inv, Bubble, Rearranged, Ordered, Answering, Room, argc1
<1>5. Downstream'
  BY DEF Inv, Downstream, Asking, Working, Answering, Room, argc1
<1>6. Faulted'
  BY DEF Inv, Faulted, Downstream, Working, Asking, argc1
<1> QED BY <1>1, <1>2, <1>3, <1>4, <1>5, <1>6 DEF Inv

(* The server closes at the end of dowork().                               *)
LEMMA Closing == ASSUME Inv, ServerCloses PROVE Inv'
<1>1. Types /\ Len(ptr) \in Nat /\ i \in Nat
  BY Lengths DEF Inv
<1>3. server = "write" /\ i = Len(ptr) + 1 /\ ~ServerGone
  BY <1>1 DEF Inv, ServerCloses, Downstream, Answering, ServerGone
<1>2. Leaves("closed") /\ UNCHANGED <<clientVars, up, down>>
  BY DEF ServerCloses
<1> QED BY <1>2, <1>3, Leaving

(* It is killed.                                                           *)
LEMMA Killing == ASSUME Inv, ServerKilled PROVE Inv'
BY Leaving DEF ServerKilled

(* bubble() has only one item, and looks at what is no string.             *)
LEMMA ComparingNull == ASSUME Inv, CompareNull PROVE Inv'
<1>1. server = "bubble" /\ i + 1 > Len(ptr) /\ ~ServerGone
  BY DEF CompareNull, ServerGone
<1>2. Types /\ Len(ptr) \in Nat /\ Len(ptr) = Room /\ i = 1
  <2>1. Types /\ Len(ptr) \in Nat /\ i \in Nat
    BY Lengths DEF Inv
  <2> QED BY <1>1, <2>1 DEF Inv, Bubble
<1>3. argc1 = 1 \/ argc1 >= MAXITEMS
  BY <1>1, <1>2, Lengths, SizeAssumption
<1>4. Leaves("segv") /\ UNCHANGED <<clientVars, up, down>>
  BY DEF CompareNull
<1> QED BY <1>1, <1>3, <1>4, Leaving

(* The server reads how many items there will be.                          *)
LEMMA Counting == ASSUME Inv, ServerCount PROVE Inv'
<1> USE DEF ServerCount, clientVars, buffers
<1>1. /\ Types /\ server = "count" /\ ptr = <<>> /\ up # <<>> /\ client # "count"
      /\ Len(up) = Len(sent) + 1 /\ up[1] = argc1 /\ \A x \in 1..Len(sent) : up[x + 1] = sent[x]
  BY DEF Inv, Upstream
<1>2. /\ n' = argc1 /\ up' \in Seq(Message) /\ Len(up') = Len(sent)
      /\ \A x \in 1..Len(up') : up'[x] = sent[x]
  <2>1. up \in Seq(Message) /\ up' = Tail(up) /\ Head(up) = up[1]
    BY <1>1, Lengths
  <2> QED BY <1>1, <2>1, HeadTailProperties, Lengths
<1>3. SentAsGiven' /\ Progress' /\ Buffer'
  BY ServerFrame DEF Inv
<1>4. Types'
  <2>1. argc1' = argc1 /\ n' \in 0..argc1
    BY <1>1, <1>2, Lengths DEF argc1
  <2> QED BY <1>1, <1>2, <2>1 DEF Types
<1>5. Upstream'
  <2>1. ~ServerGone' /\ ~ServerGone /\ end' = end
    BY <1>1 DEF ServerGone
  <2>2. Len(ptr) = 0 /\ Len(sent) \in Nat
    BY <1>1, Lengths
  <2>3. \A x \in 1..Len(up') : up'[x] = sent[Len(ptr) + x]
    BY <1>2, <2>2
  <2> QED BY <1>1, <1>2, <2>1, <2>2, <2>3 DEF Inv, Upstream, argc1
<1>6. Bubble' /\ Faulted'
  BY <1>1 DEF Inv, Bubble, Faulted, Answering
<1>7. Downstream'
  BY <1>1 DEF Inv, Downstream, Asking, Working, Answering, Room, argc1
<1> QED BY <1>3, <1>4, <1>5, <1>6, <1>7 DEF Inv

(* It reads an item.                                                       *)
LEMMA ReadingItem == ASSUME Inv, ServerItem PROVE Inv'
<1> USE DEF ServerItem, clientVars, buffers
<1>1. /\ Types /\ server = "items" /\ up # <<>> /\ client # "count" /\ n = argc1
      /\ Len(ptr) < Room /\ Len(ptr) + Len(up) = Len(sent)
      /\ \A x \in 1..Len(ptr) : ptr[x] = sent[x]
      /\ \A x \in 1..Len(up) : up[x] = sent[Len(ptr) + x]
  BY DEF Inv, Upstream, Room
<1>2. Head(up) = sent[Len(ptr) + 1] /\ Head(up) \in Short
  <2>1. up \in Seq(Message) /\ Head(up) = up[1] /\ Len(up) >= 1
    BY <1>1, Lengths
  <2> QED BY <1>1, <2>1, Lengths
<1>3. /\ up' \in Seq(Message) /\ Len(up') = Len(up) - 1
      /\ \A x \in 1..Len(up') : up'[x] = up[x + 1]
  BY <1>1, Lengths, HeadTailProperties
<1>4. /\ ptr' \in Seq(Short) /\ Len(ptr') = Len(ptr) + 1
      /\ \A x \in 1..Len(ptr) : ptr'[x] = ptr[x]
      /\ ptr'[Len(ptr) + 1] = sent[Len(ptr) + 1]
  BY <1>1, <1>2, Lengths, AppendProperties
<1>5. SentAsGiven' /\ Progress' /\ Buffer'
  BY ServerFrame DEF Inv
<1>6. Types'
  <2>1. Len(ptr) + 1 <= MAXITEMS
    BY <1>1, Lengths, SizeAssumption
  <2> QED BY <1>1, <1>3, <1>4, <2>1 DEF Types, argc1
<1>7. Upstream'
  <2>1. ~ServerGone' /\ ~ServerGone /\ end' = end
    BY <1>1 DEF ServerGone
  <2>2. \A x \in 1..Len(ptr') : ptr'[x] = sent[x]
    BY <1>1, <1>4, Lengths
  <2>3. \A x \in 1..Len(up') : up'[x] = sent[Len(ptr') + x]
    BY <1>1, <1>3, <1>4, Lengths
  <2>4. Len(ptr') + Len(up') = Len(sent)
    BY <1>1, <1>3, <1>4, Lengths
  <2> QED BY <1>1, <2>1, <2>2, <2>3, <2>4 DEF Inv, Upstream, argc1
<1>8. Bubble' /\ Faulted'
  BY <1>1 DEF Inv, Bubble, Faulted, Answering
<1>9. Downstream'
  BY <1>1 DEF Inv, Downstream, Asking, Working, Answering, Room, argc1
<1> QED BY <1>5, <1>6, <1>7, <1>8, <1>9 DEF Inv

(* It has them all, in the order in which they came; or their end is       *)
(* written past that of ptr.                                               *)
LEMMA ItemsEnding == ASSUME Inv, ServerItemsEnd PROVE Inv'
<1> USE DEF ServerItemsEnd, clientVars, buffers
<1>1. /\ Types /\ server = "items" /\ client # "count" /\ n = argc1 /\ ~ServerGone
      /\ Len(ptr) = Room /\ Len(ptr) + Len(up) = Len(sent) /\ i = 1 /\ sorted = TRUE
      /\ \A x \in 1..Len(ptr) : ptr[x] = sent[x]
  BY DEF Inv, Upstream, Bubble, Room, ServerGone
<1>2. /\ Len(ptr) \in Nat /\ Len(up) \in Nat /\ Len(sent) \in Nat /\ argc1 \in Nat
      /\ Room = MAXITEMS => argc1 >= MAXITEMS
  BY <1>1, Lengths, SizeAssumption
<1>3. CASE Len(ptr) = MAXITEMS /\ Leaves("segv")
  BY <1>1, <1>2, <1>3, Leaving
<1>4. CASE server' = "bubble" /\ UNCHANGED <<n, ptr, i, sorted, end>>
  <2>1. SentAsGiven' /\ Progress' /\ Buffer'
    BY <1>4, ServerFrame DEF Inv
  <2>2. Types'
    BY <1>1, <1>4 DEF Types, argc1
  <2>3. Upstream'
    BY <1>1, <1>4 DEF Inv, Upstream, argc1, ServerGone
  <2>4. Rearranged
    <3>1. \A x \in 1..Len(ptr) : ptr[x] = sent[[y \in 1..Len(ptr) |-> y][x]]
      BY <1>1
    <3> QED BY <3>1 DEF Rearranged
  <2>5. Bubble'
    <3>1. Rearranged' /\ Room' = Room
      BY <1>4, <2>4 DEF Rearranged, Room, argc1
    <3>2. Ordered(ptr', 1)
      BY DEF Ordered
    <3> QED BY <1>1, <1>2, <1>4, <3>1, <3>2 DEF Bubble, Answering
  <2>6. Downstream' /\ Faulted'
    BY <1>1, <1>4 DEF Inv, Downstream, Asking, Working, Answering, Room, argc1, Faulted
  <2> QED BY <2>1, <2>2, <2>3, <2>5, <2>6 DEF Inv
<1> QED BY <1>3, <1>4

(* An exchange of two neighbours rearranges the items once more.           *)
LEMMA Exchanged ==
    ASSUME Types, Rearranged, NEW j \in 1..(Len(ptr) - 1),
           ptr' = [ptr EXCEPT ![j] = ptr[j + 1], ![j + 1] = ptr[j]], sent' = sent
    PROVE  ptr' \in Seq(Short) /\ Len(ptr') = Len(ptr) /\ Rearranged'
<1>1. /\ ptr \in Seq(Short) /\ Len(ptr) \in Nat /\ j \in 1..Len(ptr) /\ j + 1 \in 1..Len(ptr)
      /\ ptr[j] \in Short /\ ptr[j + 1] \in Short
  BY Lengths
<1>2. /\ ptr' \in Seq(Short) /\ Len(ptr') = Len(ptr)
      /\ \A x \in 1..Len(ptr) : ptr'[x] = IF x = j + 1 THEN ptr[j] ELSE IF x = j THEN ptr[j + 1] ELSE ptr[x]
  <2> DEFINE one == [ptr EXCEPT ![j] = ptr[j + 1]]
  <2>1. /\ one \in Seq(Short) /\ Len(one) = Len(ptr)
        /\ \A x \in 1..Len(ptr) : one[x] = IF x = j THEN ptr[j + 1] ELSE ptr[x]
    BY <1>1, ExceptSeq
  <2>2. ptr' = [one EXCEPT ![j + 1] = ptr[j]]
    OBVIOUS
  <2> HIDE DEF one
  <2>3. /\ ptr' \in Seq(Short) /\ Len(ptr') = Len(one)
        /\ \A x \in 1..Len(one) : ptr'[x] = IF x = j + 1 THEN ptr[j] ELSE one[x]
    BY <1>1, <2>1, <2>2, ExceptSeq
  <2> QED BY <2>1, <2>3
<1>3. PICK f \in [1..Len(ptr) -> 1..Len(ptr)] :
          /\ \A x, y \in 1..Len(ptr) : f[x] = f[y] => x = y
          /\ \A x \in 1..Len(ptr) : ptr[x] = sent[f[x]]
  BY DEF Rearranged
<1> DEFINE g == [x \in 1..Len(ptr) |-> IF x = j + 1 THEN f[j] ELSE IF x = j THEN f[j + 1] ELSE f[x]]
<1>4. g \in [1..Len(ptr) -> 1..Len(ptr)]
  BY <1>1
<1>5. \A x, y \in 1..Len(ptr) : g[x] = g[y] => x = y
  BY <1>1, <1>3
<1>6. \A x \in 1..Len(ptr) : ptr'[x] = sent[g[x]]
  BY <1>1, <1>2, <1>3
<1> HIDE DEF g
<1>7. Rearranged'
  <2>1. /\ g \in [1..Len(ptr') -> 1..Len(ptr')]
        /\ \A x, y \in 1..Len(ptr') : g[x] = g[y] => x = y
        /\ \A x \in 1..Len(ptr') : ptr'[x] = sent'[g[x]]
    BY <1>2, <1>4, <1>5, <1>6
  <2> QED BY <2>1 DEF Rearranged
<1> QED BY <1>2, <1>7

(* A comparison.  As long as sorted holds, what the pass has gone over is  *)
(* in order and has not been touched.                                      *)
LEMMA Comparing == ASSUME Inv, Compare PROVE Inv'
<1> USE DEF clientVars, buffers
<1>1. /\ Types /\ server = "bubble" /\ i + 1 <= Len(ptr) /\ ~ServerGone
      /\ Len(ptr) = Room /\ Len(ptr) <= Len(sent) /\ Rearranged
      /\ sorted => Ordered(ptr, i)
      /\ UNCHANGED <<clientVars, up, down, n, end>>
  BY DEF Inv, Bubble, Compare, ServerGone
<1>2. /\ Len(ptr) \in Nat /\ i \in 1..(Len(ptr) - 1) /\ Len(ptr) <= MAXITEMS
      /\ argc1 \in Nat /\ sorted \in BOOLEAN
  <2>1. Len(ptr) \in Nat /\ i \in Nat /\ Len(ptr) <= MAXITEMS /\ argc1 \in Nat
    BY <1>1, Lengths
  <2>2. i \in 1..(MAXITEMS + 1) /\ sorted \in BOOLEAN
    BY <1>1 DEF Types
  <2> QED BY <1>1, <2>1, <2>2, SizeAssumption
<1> DEFINE swap == Greater(ptr[i], ptr[i + 1])
           more == i + 2 <= Len(ptr)
<1>3. /\ swap => ptr' = Swapped
      /\ ~swap => ptr' = ptr
      /\ more => i' = i + 1
      /\ ~more => i' = 1
      /\ server' = IF more \/ swap \/ ~sorted THEN "bubble" ELSE "answer"
      /\ sorted' = IF more THEN sorted /\ ~swap ELSE TRUE
  BY DEF Compare
<1>4. sorted' \in BOOLEAN /\ server' \in {"bubble", "answer"}
  <2> HIDE DEF swap, more
  <2> QED BY <1>2, <1>3
<1>5. (more /\ sorted' => sorted /\ ~swap) /\ (~more => sorted' = TRUE)
      /\ (server' = "answer" => ~more /\ ~swap /\ sorted)
  <2> HIDE DEF swap, more
  <2> QED BY <1>2, <1>3
<1>6. ptr' \in Seq(Short) /\ Len(ptr') = Len(ptr) /\ Rearranged'
  <2>1. CASE swap
    BY <1>1, <1>2, <1>3, <2>1, Exchanged DEF Swapped
  <2>2. CASE ~swap
    <3>1. ptr' = ptr /\ sent' = sent
      BY <1>1, <1>3, <2>2
    <3>2. ptr' \in Seq(Short) /\ Len(ptr') = Len(ptr)
      BY <1>1, <3>1, Lengths
    <3>3. Rearranged'
      BY <1>1, <3>1 DEF Rearranged
    <3> QED BY <3>2, <3>3
  <2> QED BY <2>1, <2>2
<1>7. ASSUME sorted, ~swap PROVE Ordered(ptr', i + 1)
  <2>1. ptr' = ptr /\ Ordered(ptr, i)
    BY <1>1, <1>3, <1>7
  <2> QED BY <1>2, <1>7, <2>1 DEF Ordered
<1>8. i' \in 1..(MAXITEMS + 1) /\ (i' = 1 \/ i' + 1 <= Len(ptr'))
  BY <1>2, <1>3, <1>6, SizeAssumption
<1> HIDE DEF swap
<1>9. SentAsGiven' /\ Progress' /\ Buffer'
  BY <1>1, <1>4, ServerFrame DEF Inv
<1>10. Types'
  BY <1>1, <1>2, <1>4, <1>6, <1>8 DEF Types, argc1
<1>11. Upstream'
  <2>1. ~ServerGone'
    BY <1>4 DEF ServerGone
  <2> QED BY <1>1, <1>4, <1>6, <2>1 DEF Inv, Upstream, argc1
<1>12. Bubble'
  <2>1. Room' = Room
    BY <1>1 DEF Room, argc1
  <2>2. sorted' => Ordered(ptr', i')
    <3>1. CASE more
      BY <1>3, <1>5, <1>7, <3>1
    <3>2. CASE ~more
      BY <1>3, <3>2 DEF Ordered
    <3> QED BY <3>1, <3>2
  <2>3. server' = "answer" => Ordered(ptr', Len(ptr'))
    <3>1. ~more => i + 1 = Len(ptr')
      BY <1>2, <1>6
    <3> QED BY <1>5, <1>7, <3>1
  <2> HIDE DEF more
  <2> QED BY <1>1, <1>4, <1>6, <1>8, <2>1, <2>2, <2>3 DEF Bubble, Answering
<1>13. Downstream' /\ Faulted'
  BY <1>1, <1>4 DEF Inv, Downstream, Asking, Working, Answering, Room, argc1, Faulted
<1> QED BY <1>9, <1>10, <1>11, <1>12, <1>13 DEF Inv

(* The server writes the count.                                            *)
LEMMA AnsweringCount == ASSUME Inv, Answer PROVE Inv'
<1> USE DEF Answer, clientVars, buffers
<1>1. /\ Types /\ server = "answer" /\ ~ServerGone /\ Asking /\ down = <<>>
      /\ Len(ptr) = Room /\ Ordered(ptr, Len(ptr)) /\ Rearranged
  BY DEF Inv, Bubble, Downstream, Working, ServerGone
<1>2. /\ down' \in Seq(Message) /\ Len(down') = 1 /\ down'[1] = Room
  <2>1. Len(ptr) \in Message /\ Len(down) = 0 /\ down \in Seq(Message)
    BY <1>1, Lengths DEF Message
  <2> QED BY <1>1, <2>1, AppendProperties
<1>3. SentAsGiven' /\ Progress' /\ Buffer'
  BY ServerFrame DEF Inv
<1>4. Types'
  <2>1. argc1' = argc1 /\ 1 \in 1..(MAXITEMS + 1)
    BY SizeAssumption DEF argc1
  <2> QED BY <1>1, <1>2, <2>1 DEF Types
<1>5. Upstream'
  BY <1>1 DEF Inv, Upstream, argc1, ServerGone
<1>6. Bubble' /\ Faulted'
  BY <1>1 DEF Inv, Bubble, Rearranged, Ordered, Answering, Room, argc1, Faulted
<1>7. Downstream'
  <2>1. Asking' /\ client' # "print" /\ client' # "done" /\ ~Working' /\ server' = "write"
    BY <1>1 DEF Asking, Working
  <2>2. i' <= Len(ptr') + 1 /\ Room' = Room
    BY <1>1, Lengths DEF Room, argc1
  <2> QED BY <1>2, <2>1, <2>2 DEF Downstream, Answering
<1> QED BY <1>3, <1>4, <1>5, <1>6, <1>7 DEF Inv

(* It writes an item.                                                      *)
LEMMA WritingItem == ASSUME Inv, WriteItem PROVE Inv'
<1> USE DEF WriteItem, clientVars, buffers
<1>1. Types /\ server = "write" /\ ~ServerGone /\ i <= Len(ptr) /\ Downstream /\ Answering
  BY DEF Inv, ServerGone, Answering
<1>3. /\ Len(ptr) \in Nat /\ Len(down) \in Nat /\ Len(printed) \in Nat /\ i \in Nat /\ i >= 1
      /\ Len(ptr) <= MAXITEMS
  <2>1. i \in 1..(MAXITEMS + 1)
    BY <1>1 DEF Types
  <2> QED BY <1>1, <2>1, Lengths, SizeAssumption
<1>2. /\ down' \in Seq(Message) /\ Len(down') = Len(down) + 1 /\ i' = i + 1
      /\ \A x \in 1..Len(down) : down'[x] = down[x]
      /\ down'[Len(down) + 1] = ptr[i] /\ ptr[i] \in Short
  <2>1. i \in 1..Len(ptr) /\ down \in Seq(Message)
    BY <1>1, <1>3, Lengths
  <2>2. ptr[i] \in Short
    BY <1>1, <2>1, Lengths
  <2>3. ptr[i] \in Message
    BY <2>2 DEF Message
  <2> QED BY <2>1, <2>2, <2>3, AppendProperties
<1>4. SentAsGiven' /\ Progress' /\ Buffer'
  BY ServerFrame DEF Inv
<1>5. Types'
  <2>1. argc1' = argc1 /\ i' \in 1..(MAXITEMS + 1)
    BY <1>1, <1>2, <1>3, SizeAssumption DEF argc1
  <2> QED BY <1>1, <1>2, <2>1 DEF Types
<1>6. Upstream'
  BY <1>1 DEF Inv, Upstream, argc1, ServerGone
<1>7. Bubble' /\ Faulted'
  BY <1>1 DEF Inv, Bubble, Rearranged, Ordered, Answering, Room, argc1, Faulted
<1>8. Downstream'
  <2> USE <1>1, <1>2, <1>3
  <2>1. (Asking' => Asking) /\ ~Working' /\ Room' = Room /\ server' = "write"
    BY DEF Asking, Working, Room, argc1
  <2>2. Asking => /\ down'[1] = Room /\ \A x \in 2..Len(down') : down'[x] \in Short
                  /\ Len(down') = i' /\ \A x \in 1..(i' - 1) : down'[x + 1] = ptr[x]
    BY SMTT(30), Lengths DEF Downstream
  <2>3. client = "print" => /\ \A x \in 1..Len(down') : down'[x] \in Short
                            /\ Len(printed) + Len(down') = i' - 1
                            /\ \A x \in 1..Len(down') : down'[x] = ptr[Len(printed) + x]
    BY DEF Downstream
  <2>4. client \in {"print", "done"} => /\ Len(printed) <= Len(ptr)
                                        /\ \A x \in 1..Len(printed) : printed[x] = ptr[x]
    BY DEF Downstream
  <2>5. i' <= Len(ptr) + 1
    OBVIOUS
  <2> QED BY <2>1, <2>2, <2>3, <2>4, <2>5 DEF Downstream
<1> QED BY <1>4, <1>5, <1>6, <1>7, <1>8 DEF Inv

-----------------------------------------------------------------------------
(* Steps of the client.                                                    *)

(* They leave what only the server knows as it is.                         *)
LEMMA ClientFrame ==
    ASSUME Inv, UNCHANGED <<args, sent, serverVars>>
    PROVE  Bubble' /\ Room' = Room /\ (ServerGone => ServerGone') /\ argc1' = argc1
BY DEF Inv, Bubble, Rearranged, Ordered, Answering, Room, argc1, serverVars, ServerGone

(* A call that fails ends the client, only after the server has gone.      *)
LEMMA Failing == ASSUME Inv, end # "open", ClientFails PROVE Inv'
<1> USE DEF ClientFails, serverVars, buffers
<1>1. /\ Types /\ ServerGone /\ ~Working /\ client' = "failed"
  BY DEF Inv, Upstream, ServerGone, Working
<1>2. Types'
  BY <1>1 DEF Types, argc1
<1>3. SentAsGiven'
  BY DEF Inv, SentAsGiven, Given
<1>4. Progress' /\ Buffer'
  BY DEF Inv, Progress, Buffer, CString, Asking, argc1
<1>5. Upstream'
  BY <1>1 DEF Inv, Upstream, argc1, ServerGone
<1>6. Bubble'
  BY ClientFrame
<1>7. Downstream' /\ Faulted'
  BY <1>1 DEF Inv, Downstream, Faulted, Asking, Working, Answering, Room, argc1
<1> QED BY <1>2, <1>3, <1>4, <1>5, <1>6, <1>7 DEF Inv

(* It writes the count.                                                    *)
LEMMA SendingCount == ASSUME Inv, SendCount PROVE Inv'
<1> USE DEF SendCount, serverVars, buffers
<1>1. /\ Types /\ client = "count" /\ k = 1 /\ sent = <<>> /\ printed = <<>> /\ ~ServerGone
      /\ server = "count" /\ up = <<>>
  BY DEF Inv, Progress, Upstream, ServerGone, Asking, Types
<1>2. Len(sent) = 0 /\ argc1 \in Nat
  BY <1>1, Lengths
<1>3. up' \in Seq(Message) /\ Len(up') = 1 /\ up'[1] = argc1
  <2>1. argc1 \in Message /\ Len(up) = 0 /\ up \in Seq(Message)
    BY <1>1, Lengths DEF Message
  <2> QED BY <1>1, <2>1, AppendProperties
<1>4. Types'
  BY <1>1, <1>3 DEF Types, argc1
<1>5. SentAsGiven'
  BY DEF Inv, SentAsGiven, Given
<1>6. Progress' /\ Buffer'
  BY <1>1, <1>2 DEF Inv, Progress, Buffer, CString, Asking, argc1
<1>7. Upstream'
  BY <1>1, <1>2, <1>3 DEF Inv, Upstream, argc1, ServerGone
<1>8. Bubble'
  BY ClientFrame
<1>9. Downstream' /\ Faulted'
  BY <1>1 DEF Inv, Downstream, Faulted, Asking, Working, Answering, Room, argc1
<1> QED BY <1>4, <1>5, <1>6, <1>7, <1>8, <1>9 DEF Inv

(* What is left of a word in a buffer with room for TEMP - 1 characters.   *)
Cut(w) == SubSeq(w, 1, Smaller(Len(w), TEMP - 1))

(* What temp holds after strncpy(): it begins with the word, cut, and is   *)
(* just that when the rest of temp is full of NULs.                        *)
LEMMA CopiedWord ==
    ASSUME Types, NEW w \in Words
    PROVE  /\ Copied(w) \in [1..TEMP -> Nat] /\ Copied(w)[TEMP] = 0
           /\ \A x \in 1..TEMP : x > Len(w) /\ temp[x] = 0 => Copied(w)[x] = 0
           /\ CString(Copied(w)) \in Short
           /\ SubSeq(CString(Copied(w)), 1, Len(Cut(w))) = Cut(w)
           /\ (\A x \in 1..TEMP : x > Len(w) => temp[x] = 0) => CString(Copied(w)) = Cut(w)
<1> DEFINE b == Copied(w)
           m == Smaller(Len(w), TEMP - 1)
<1>1. w \in Seq(Nat \ {0}) /\ Len(w) \in Nat /\ \A x \in 1..Len(w) : w[x] \in Nat \ {0}
  BY WordAssumption, LenProperties
<1>2. /\ b \in [1..TEMP -> Nat]
      /\ \A x \in 1..TEMP : b[x] = IF x = TEMP THEN 0 ELSE IF x <= Len(w) THEN w[x] ELSE temp[x]
  <2>1. temp \in [1..TEMP -> Nat]
    BY DEF Types
  <2>2. b = [x \in 1..TEMP |-> IF x = TEMP THEN 0 ELSE IF x <= Len(w) THEN w[x] ELSE temp[x]]
    BY DEF Copied
  <2> HIDE DEF b
  <2> QED BY <1>1, <2>1, <2>2, SizeAssumption
<1> HIDE DEF b
<1>3. m \in Nat /\ m < TEMP /\ m <= Len(w) /\ (m = TEMP - 1 \/ m = Len(w))
  BY <1>1, SizeAssumption DEF Smaller
<1>4. /\ Cut(w) \in Seq(Nat \ {0}) /\ Len(Cut(w)) = m
      /\ \A x \in 1..m : Cut(w)[x] = w[x]
  <2>1. \A x \in 1..m : w[x] \in Nat \ {0}
    BY <1>1, <1>3
  <2>2. 1 \in Int /\ m \in Int /\ Cut(w) = SubSeq(w, 1, m)
    BY <1>3 DEF Cut
  <2> HIDE DEF m
  <2> QED BY <1>3, <2>1, <2>2, SubSeqProperties
<1> HIDE DEF m
<1>5. /\ b[TEMP] = 0 /\ TEMP \in 1..TEMP
      /\ \A x \in 1..TEMP : x > Len(w) /\ temp[x] = 0 => b[x] = 0
      /\ \A x \in 1..m : b[x] = w[x] /\ b[x] # 0
  BY <1>1, <1>2, <1>3, SizeAssumption
<1>6. PICK stop \in 1..TEMP :
          /\ b[stop] = 0 /\ \A y \in 1..(stop - 1) : b[y] # 0
          /\ CString(b) \in Short /\ Len(CString(b)) = stop - 1
          /\ \A y \in 1..(stop - 1) : CString(b)[y] = b[y]
  BY <1>2, <1>5, Terminated
<1>7. m <= stop - 1
  BY <1>3, <1>5, <1>6, SizeAssumption
<1>8. SubSeq(CString(b), 1, m) = Cut(w)
  <2>1. \A x \in 1..m : CString(b)[x] = w[x]
    BY <1>3, <1>5, <1>6, <1>7, SizeAssumption
  <2>2. \A x \in 1..m : CString(b)[x] \in Nat \ {0}
    BY <1>1, <1>3, <2>1
  <2>3. /\ SubSeq(CString(b), 1, m) \in Seq(Nat \ {0}) /\ Len(SubSeq(CString(b), 1, m)) = m
        /\ \A x \in 1..m : SubSeq(CString(b), 1, m)[x] = CString(b)[x]
    <3>1. 1 \in Int /\ m \in Int
      BY <1>3
    <3> QED BY <1>3, <2>2, <3>1, SubSeqProperties
  <2> QED BY <1>4, <2>1, <2>3, SeqEqual
<1>9. ASSUME \A x \in 1..TEMP : x > Len(w) => temp[x] = 0
      PROVE  CString(b) = Cut(w)
  <2>1. b[m + 1] = 0
    BY <1>1, <1>2, <1>3, <1>9, SizeAssumption
  <2>2. Cut(w) \in Short
    BY <1>3, <1>4 DEF Short, Word
  <2>3. \A x \in 1..Len(Cut(w)) : b[x] = Cut(w)[x]
    BY <1>4, <1>5
  <2> QED BY <1>2, <1>4, <2>1, <2>2, <2>3, Holds
<1> QED BY <1>2, <1>4, <1>5, <1>6, <1>8, <1>9 DEF b

(* It writes a word.                                                       *)
LEMMA SendingWord == ASSUME Inv, SendWord PROVE Inv'
<1> USE DEF serverVars, buffers
<1>1. /\ Types /\ client = "send" /\ Len(sent) = k - 1 /\ printed = <<>> /\ ~ServerGone
      /\ Progress /\ Upstream /\ k <= argc1 /\ Buffer
  BY DEF Inv, Progress, Upstream, Asking, SendWord
<1>2. /\ Len(sent) \in Nat /\ argc1 \in Nat /\ k \in Nat /\ Len(ptr) \in Nat /\ Len(up) \in Nat
      /\ sent \in Seq(Short) /\ up \in Seq(Message) /\ k = Len(sent) + 1
      /\ args \in Seq(Words) /\ args[k] \in Words /\ argc1 = Len(args)
  <2>1. args \in Seq(Words) /\ k \in 1..(argc1 + 1)
    BY <1>1 DEF Types
  <2> QED BY <1>1, <2>1, Lengths DEF argc1
<1> DEFINE w == args[k]
           word == CString(temp')
<1>3. /\ temp' = Copied(w) /\ sent' = Append(sent, word) /\ up' = Append(up, word) /\ k' = k + 1
      /\ UNCHANGED <<args, zeroed, client, printed, down, serverVars>>
  BY DEF SendWord
<1>4. /\ temp' \in [1..TEMP -> Nat] /\ temp'[TEMP] = 0 /\ word \in Short
      /\ \A x \in 1..TEMP : x > Len(w) /\ temp[x] = 0 => temp'[x] = 0
      /\ SubSeq(word, 1, Len(Cut(w))) = Cut(w)
      /\ (\A x \in 1..TEMP : x > Len(w) => temp[x] = 0) => word = Cut(w)
  BY <1>1, <1>2, <1>3, CopiedWord
<1> HIDE DEF word
<1>5. /\ sent' \in Seq(Short) /\ Len(sent') = k /\ sent'[k] = word /\ sent' # <<>>
      /\ \A x \in 1..(k - 1) : sent'[x] = sent[x]
  <2>1. /\ sent' \in Seq(Short) /\ Len(sent') = Len(sent) + 1 /\ sent'[Len(sent) + 1] = word
        /\ sent' # <<>> /\ \A x \in 1..Len(sent) : sent'[x] = sent[x]
    <3>1. sent \in Seq(Short) /\ word \in Short /\ sent' = Append(sent, word)
      BY <1>2, <1>3, <1>4
    <3> QED BY <3>1, AppendProperties
  <2> QED BY <1>2, <2>1
<1>6. /\ up' \in Seq(Message) /\ Len(up') = Len(up) + 1 /\ up'[Len(up) + 1] = word
      /\ \A x \in 1..Len(up) : up'[x] = up[x]
  <2>1. word \in Message
    BY <1>4 DEF Message
  <2> QED BY <1>2, <1>3, <2>1, AppendProperties
<1>7. argc1' = argc1 /\ \A x : Given(x)' = Given(x) /\ Given(x) = Cut(args[x])
  BY <1>3 DEF argc1, Given, Cut
<1>8. zeroed => \A x \in 1..TEMP : (\A y \in 1..(k - 1) : Len(args[y]) < x) => temp[x] = 0
  BY <1>1 DEF Buffer
<1>9. Types'
  <2>1. k' \in 1..(argc1 + 1)
    BY <1>1, <1>2, <1>3
  <2> QED BY <1>1, <1>3, <1>4, <1>5, <1>6, <1>7, <2>1 DEF Types
<1>10. SentAsGiven'
  <2> SUFFICES ASSUME NEW x \in 1..Len(sent')
               PROVE  /\ SubSeq(sent'[x], 1, Len(Given(x))) = Given(x)
                      /\ zeroed /\ (\A y \in 1..x : Len(args[y]) <= Len(args[x])) => sent'[x] = Given(x)
    BY <1>3, <1>7 DEF SentAsGiven
  <2>1. CASE x \in 1..(k - 1)
    BY <1>1, <1>2, <1>5, <2>1 DEF Inv, SentAsGiven
  <2>2. CASE x = k
    <3>1. ASSUME zeroed, \A y \in 1..k : Len(args[y]) <= Len(args[k])
          PROVE  word = Cut(w)
      <4>1. \A y \in 1..argc1 : Len(args[y]) \in Nat
        <5>1. \A y \in 1..argc1 : args[y] \in Seq(Nat \ {0})
          BY <1>2, WordAssumption
        <5> QED BY <5>1, LenProperties
      <4>2. ASSUME NEW x1 \in 1..TEMP, x1 > Len(w) PROVE temp[x1] = 0
        <5>1. \A y \in 1..(k - 1) : Len(args[y]) < x1
          BY <1>1, <1>2, <3>1, <4>1, <4>2, SizeAssumption
        <5> QED BY <1>8, <3>1, <5>1
      <4> QED BY <1>4, <4>2
    <3> QED BY <1>4, <1>5, <1>7, <2>2, <3>1
  <2> QED BY <1>2, <1>5, <2>1, <2>2
<1>11. Progress'
  BY <1>1, <1>2, <1>3, <1>5, <1>7 DEF Progress, Asking
<1>12. Buffer'
  <2>1. ASSUME zeroed, NEW x \in 1..TEMP, \A y \in 1..k : Len(args[y]) < x
        PROVE  temp'[x] = 0
    <3>1. k \in 1..k /\ \A y \in 1..(k - 1) : y \in 1..k
      BY <1>1, <1>2
    <3>2. temp[x] = 0 /\ Len(args[k]) < x
      BY <1>8, <2>1, <3>1
    <3>3. Len(args[k]) \in Nat
      BY <1>2, WordAssumption, LenProperties
    <3> QED BY <1>4, <2>1, <3>2, <3>3, SizeAssumption
  <2>2. k' - 1 = k /\ TEMP \in 1..TEMP
    BY <1>2, <1>3, SizeAssumption
  <2>3. CString(temp)' = sent'[Len(sent')]
    BY <1>5 DEF word
  <2> QED BY <1>3, <1>4, <2>1, <2>2, <2>3 DEF Buffer
<1>13. Upstream'
  <2>7. server \in {"count", "items"} => Len(ptr) <= Len(sent)
    BY <1>1, <1>2, EmptySeq DEF Upstream
  <2>1. server = "count" => \A x \in 1..Len(sent') : up'[x + 1] = sent'[x]
    <3> SUFFICES ASSUME server = "count", NEW x \in 1..Len(sent') PROVE up'[x + 1] = sent'[x]
      OBVIOUS
    <3>1. Len(up) = Len(sent) + 1 /\ \A y \in 1..Len(sent) : up[y + 1] = sent[y]
      BY <1>1 DEF Upstream
    <3>2. CASE x = k
      BY <1>2, <1>5, <1>6, <3>1, <3>2
    <3>3. CASE x \in 1..(k - 1)
      BY <1>2, <1>5, <1>6, <3>1, <3>3
    <3> QED BY <1>2, <1>5, <3>2, <3>3
  <2>2. server = "items" => \A x \in 1..Len(ptr) : ptr[x] = sent'[x]
    BY <1>1, <1>2, <1>5, <2>7 DEF Upstream
  <2>3. server = "items" => \A x \in 1..Len(up') : up'[x] = sent'[Len(ptr) + x]
    <3> SUFFICES ASSUME server = "items", NEW x \in 1..Len(up') PROVE up'[x] = sent'[Len(ptr) + x]
      OBVIOUS
    <3>1. Len(ptr) + Len(up) = Len(sent) /\ \A y \in 1..Len(up) : up[y] = sent[Len(ptr) + y]
      BY <1>1 DEF Upstream
    <3>2. CASE x = Len(up) + 1
      BY <1>2, <1>5, <1>6, <3>1, <3>2
    <3>3. CASE x \in 1..Len(up)
      BY SMTT(30), <1>2, <1>5, <1>6, <3>1, <3>3
    <3> QED BY <1>2, <1>6, <3>2, <3>3
  <2>4. server = "count" => Len(up') = Len(sent') + 1 /\ up'[1] = argc1
    BY SMTT(30), <1>1, <1>2, <1>5, <1>6 DEF Upstream
  <2>5. server \in {"items", "bubble", "answer", "write"} => Len(ptr) + Len(up') = Len(sent')
    BY <1>1, <1>2, <1>5, <1>6 DEF Upstream
  <2>6. ~ServerGone' /\ end' = "open"
    BY <1>1, <1>3 DEF ServerGone, SendWord
  <2> QED BY <1>1, <1>3, <1>7, <2>1, <2>2, <2>3, <2>4, <2>5, <2>6 DEF Upstream
<1>14. Bubble'
  <2>1. Rearranged /\ Len(ptr) <= Len(sent) => Rearranged'
    <3> SUFFICES ASSUME Rearranged, Len(ptr) <= Len(sent) PROVE Rearranged'
      OBVIOUS
    <3>1. PICK f \in [1..Len(ptr) -> 1..Len(ptr)] :
              /\ \A x, y \in 1..Len(ptr) : f[x] = f[y] => x = y
              /\ \A x \in 1..Len(ptr) : ptr[x] = sent[f[x]]
      BY DEF Rearranged
    <3>2. ASSUME NEW x \in 1..Len(ptr) PROVE ptr[x] = sent'[f[x]]
      <4>1. f[x] \in 1..Len(ptr) /\ ptr[x] = sent[f[x]]
        BY <3>1
      <4>2. Len(ptr) \in Nat /\ Len(sent) \in Nat /\ Len(ptr) <= Len(sent) /\ f[x] \in 1..Len(sent)
        BY <1>1, <1>5, <3>1, <4>1
      <4> QED
        BY <1>2, <1>5, <4>1, <4>2
    <3> QED BY ZenonT(30), <1>3, <3>1, <3>2 DEF Rearranged
  <2>2. Len(ptr) <= Len(sent) => Len(ptr) <= Len(sent')
    BY <1>2, <1>5
  <2> QED BY <1>3, <2>1, <2>2 DEF Inv, Bubble, Ordered, Answering, Room, argc1
<1>15. Downstream' /\ Faulted'
  <2>1. Room' = Room /\ Asking' /\ client' = "send"
    BY <1>1, <1>3 DEF Room, argc1, Asking
  <2>2. server # "segv"
    BY <1>1 DEF ServerGone
  <2> QED BY <1>1, <1>3, <2>1, <2>2 DEF Inv, Downstream, Faulted, Asking, Working, Answering
<1> QED BY <1>9, <1>10, <1>11, <1>12, <1>13, <1>14, <1>15 DEF Inv

(* It has written them all.                                                *)
LEMMA EndingData == ASSUME Inv, DataSent PROVE Inv'
<1>1. Types /\ Len(sent) = argc1
  <2>1. Types /\ Len(sent) = k - 1 /\ k > argc1 /\ Len(sent) <= argc1
    BY DEF Inv, Progress, DataSent
  <2>2. Len(sent) \in Nat /\ k \in Nat /\ argc1 \in Nat
    BY <2>1, Lengths
  <2> QED BY <2>1, <2>2
<1> USE DEF DataSent, serverVars, buffers
<1>2. Types'
  BY <1>1 DEF Types, argc1
<1>3. SentAsGiven'
  BY DEF Inv, SentAsGiven, Given
<1>4. Progress' /\ Buffer'
  BY <1>1 DEF Inv, Progress, Buffer, CString, Asking, argc1
<1>5. Upstream'
  BY <1>1 DEF Inv, Upstream, argc1, ServerGone
<1>6. Bubble'
  BY ClientFrame
<1>7. Downstream' /\ Faulted'
  BY <1>1 DEF Inv, Downstream, Faulted, Asking, Working, Answering, Room, argc1
<1> QED BY <1>2, <1>3, <1>4, <1>5, <1>6, <1>7 DEF Inv

(* It reads the count, or nothing at the end of the stream.                *)
LEMMA ReadingCount == ASSUME Inv, ReadCount PROVE Inv'
<1>1. /\ Types /\ Progress /\ Buffer /\ Upstream /\ Bubble /\ Downstream /\ Faulted
      /\ client = "read count" /\ Asking /\ Len(sent) = argc1 /\ printed = <<>>
      /\ down # <<>> \/ (end = "fin" /\ ServerGone)
  <2>1. /\ Types /\ Progress /\ Buffer /\ Upstream /\ Bubble /\ Downstream /\ Faulted
        /\ client = "read count" /\ (down # <<>> \/ end = "fin")
    BY DEF Inv, ReadCount
  <2>2. Asking /\ Len(sent) = argc1 /\ printed = <<>>
    BY <2>1 DEF Progress, Asking
  <2>3. end = "fin" => ServerGone
    BY <2>1 DEF Upstream
  <2> QED BY <2>1, <2>2, <2>3
<1>2. /\ UNCHANGED <<buffers, up, serverVars>> /\ k' = 1
      /\ client' = IF down # <<>> /\ down[1] # argc1 THEN "mismatch" ELSE "print"
      /\ down # <<>> => down' = Tail(down)
      /\ down = <<>> => down' = down
  BY DEF ReadCount
<1>3. ~Working
  BY <1>1 DEF Downstream, Working, ServerGone
<1>4. /\ argc1 \in Nat /\ argc1 >= 1 /\ Len(down) \in Nat /\ down \in Seq(Message) /\ Len(ptr) \in Nat
      /\ i \in Nat /\ i >= 1 /\ Len(printed) = 0
      /\ Room = argc1 => argc1 <= MAXITEMS
      /\ down = <<>> <=> Len(down) = 0
  <2>1. i \in 1..(MAXITEMS + 1)
    BY <1>1 DEF Types
  <2>2. i >= 1
    BY <2>1, SizeAssumption
  <2> QED BY <1>1, <2>2, Lengths
<1>5. /\ down' \in Seq(Message)
      /\ down # <<>> => /\ Len(down') = Len(down) - 1
                        /\ \A x \in 1..Len(down') : down'[x] = down[x + 1]
  BY SMTT(30), <1>2, <1>4, HeadTailProperties
<1>6. client' \in {"mismatch", "print"} /\ (client' = "print" => argc1 <= MAXITEMS)
  <2>1. CASE down = <<>>
    BY <1>1, <1>2, <2>1 DEF Upstream
  <2>2. CASE down # <<>>
    <3>1. down[1] = Room
      BY <1>1, <2>2 DEF Downstream
    <3>2. CASE Room = argc1
      BY <1>2, <1>4, <2>2, <3>1, <3>2
    <3>3. CASE Room # argc1
      BY <1>2, <2>2, <3>1, <3>3
    <3> QED BY <3>2, <3>3
  <2> QED BY <2>1, <2>2
<1>7. argc1' = argc1 /\ Room' = Room /\ ~Asking' /\ ~Working'
  BY <1>2, <1>3, <1>6 DEF argc1, Room, Asking, Working, buffers, serverVars
<1>8. Types'
  <2>1. 1 \in 1..(argc1 + 1)
    BY <1>4
  <2> QED BY <1>1, <1>2, <1>5, <1>6, <1>7, <2>1 DEF Types, buffers, serverVars
<1>9. SentAsGiven'
  BY <1>2 DEF Inv, SentAsGiven, Given, buffers
<1>10. Progress' /\ Buffer'
  <2> USE DEF buffers, serverVars
  <2>1. Progress'
    <3>1. Len(printed') = k' - 1 /\ Len(sent') = argc1
      <4>1. k' = 1 /\ printed' = printed /\ sent' = sent
        BY <1>2
      <4>2. Len(printed') = Len(printed) /\ Len(sent') = Len(sent)
        BY <4>1
      <4>3. Len(printed) = 0 /\ Len(sent) = argc1
        BY <1>1, <1>4
      <4> QED BY <4>1, <4>2, <4>3
    <3>2. Len(sent') <= argc1
      BY <1>4, <3>1
    <3> QED BY <1>6, <1>7, <3>1, <3>2 DEF Progress
  <2>2. Buffer'
    <3>1. UNCHANGED <<temp, sent, args, zeroed, server>>
      BY <1>2
    <3>2. CString(temp)' = CString(temp)
      BY <3>1 DEF CString
    <3> QED BY <1>1, <1>6, <3>1, <3>2 DEF Buffer
  <2> QED BY <2>1, <2>2
<1>11. Upstream'
  BY <1>1, <1>2, <1>6, <1>7 DEF Upstream, ServerGone, buffers, serverVars
<1>12. Bubble'
  BY <1>2, ClientFrame DEF buffers
<1>13. Downstream'
  <2> USE DEF buffers, serverVars
  <2>1. server = "segv" => down' = <<>>
    BY <1>1, <1>2 DEF Downstream
  <2>2. \A x \in 1..Len(down') : down'[x] \in Short
    <3>1. CASE down = <<>>
      BY <1>2, <1>4, <3>1
    <3>2. CASE down # <<>>
      <4>1. \A x \in 2..Len(down) : down[x] \in Short
        BY <1>1, <3>2 DEF Downstream
      <4> QED BY <1>4, <1>5, <3>2, <4>1
    <3> QED BY <3>1, <3>2
  <2>3. Answering => /\ Len(down') = i - 1
                     /\ \A x \in 1..Len(down') : down'[x] = ptr[x]
    <3> SUFFICES ASSUME Answering
                 PROVE  Len(down') = i - 1 /\ \A x \in 1..Len(down') : down'[x] = ptr[x]
      OBVIOUS
    <3>1. Len(down) = i /\ \A x \in 1..(i - 1) : down[x + 1] = ptr[x]
      BY <1>1 DEF Downstream
    <3>2. down # <<>>
      BY <1>4, <3>1
    <3> QED BY <1>4, <1>5, <3>1, <3>2
  <2>4. Answering => i <= Len(ptr) + 1
    BY <1>1 DEF Downstream
  <2>5. server = "closed" => i = Len(ptr) + 1
    BY <1>1 DEF Downstream
  <2>6. Answering' => Answering
    BY <1>2 DEF Answering
  <2>7. UNCHANGED <<server, ptr, i, printed>>
    BY <1>2
  <2>8. Answering => /\ Len(printed) + Len(down') = i - 1
                     /\ \A x \in 1..Len(down') : down'[x] = ptr[Len(printed) + x]
    <3>1. \A x \in 1..Len(down') : Len(printed) + x = x
      BY <1>4, <1>5
    <3>2. Answering => Len(printed) + Len(down') = i - 1
      BY <1>4, <2>3
    <3> QED BY <2>3, <3>1, <3>2
  <2>9. Len(printed) <= Len(ptr) /\ \A x \in 1..Len(printed) : printed[x] = ptr[x]
    BY <1>4
  <2> QED BY <1>6, <1>7, <2>1, <2>2, <2>4, <2>5, <2>6, <2>7, <2>8, <2>9 DEF Downstream
<1>14. Faulted'
  BY <1>1, <1>2, <1>7 DEF Faulted, buffers, serverVars
<1> QED BY <1>8, <1>9, <1>10, <1>11, <1>12, <1>13, <1>14 DEF Inv

(* It reads a word: what it prints is just that.                           *)
LEMMA ReadingWord == ASSUME Inv, ReadWord PROVE Inv'
<1>1. /\ Types /\ Progress /\ Buffer /\ Upstream /\ Bubble /\ Downstream /\ Faulted
      /\ client = "print" /\ k <= argc1 /\ down # <<>> /\ Len(printed) = k - 1
      /\ ~Working /\ ~Asking
  BY DEF Inv, ReadWord, Progress, Downstream, Asking
<1>2. /\ UNCHANGED <<args, zeroed, client, sent, up, serverVars>> /\ k' = k + 1 /\ down' = Tail(down)
      /\ printed' = Append(printed, CString(temp'))
      /\ temp' = [x \in 1..TEMP |-> IF x <= Len(down[1]) THEN down[1][x]
                                    ELSE IF x = Len(down[1]) + 1 THEN 0 ELSE temp[x]]
  BY DEF ReadWord
<1>3. /\ argc1 \in Nat /\ k \in Nat /\ i \in Nat /\ down \in Seq(Message) /\ printed \in Seq(Short)
      /\ Len(down) \in Nat /\ Len(printed) \in Nat /\ Len(ptr) \in Nat /\ Len(down) >= 1
  BY <1>1, Lengths
<1>4. server # "segv" /\ \A x \in 1..Len(down) : down[x] \in Short
  BY <1>1 DEF Downstream
<1> DEFINE w == down[1]
<1>5. w \in Short /\ Len(w) \in Nat /\ Len(w) < TEMP /\ \A x \in 1..Len(w) : w[x] \in Nat
  <2>1. w \in Short
    BY <1>3, <1>4
  <2>2. w \in Seq(Nat \ {0}) /\ Len(w) < TEMP
    BY <2>1 DEF Short, Word
  <2> QED BY <2>1, <2>2, LenProperties
<1>6. /\ temp' \in [1..TEMP -> Nat] /\ Len(w) + 1 \in 1..TEMP
      /\ \A x \in 1..Len(w) : temp'[x] = w[x]
      /\ temp'[Len(w) + 1] = 0
  <2>1. temp \in [1..TEMP -> Nat]
    BY <1>1 DEF Types
  <2> HIDE DEF w
  <2> QED BY <1>2, <1>5, <2>1, SizeAssumption DEF w
<1> HIDE DEF w
<1>7. CString(temp') = w
  BY <1>5, <1>6, Holds
<1>8. /\ down' \in Seq(Message) /\ Len(down') = Len(down) - 1
      /\ \A x \in 1..Len(down') : down'[x] = down[x + 1]
  BY <1>1, <1>2, <1>3, HeadTailProperties
<1>9. /\ printed' \in Seq(Short) /\ Len(printed') = Len(printed) + 1
      /\ printed'[Len(printed) + 1] = w
      /\ \A x \in 1..Len(printed) : printed'[x] = printed[x]
  <2>1. printed \in Seq(Short) /\ w \in Short /\ printed' = Append(printed, w)
    BY <1>2, <1>3, <1>5, <1>7
  <2> QED BY <2>1, AppendProperties
<1>10. argc1' = argc1 /\ Room' = Room /\ ~Asking' /\ ~Working' /\ (Answering' => Answering)
  BY <1>1, <1>2 DEF argc1, Room, Asking, Working, Answering, serverVars
<1>11. Types'
  <2>1. k' \in 1..(argc1 + 1)
    BY <1>1, <1>2, <1>3
  <2> QED BY <1>1, <1>2, <1>6, <1>8, <1>9, <1>10, <2>1 DEF Types, serverVars
<1>12. SentAsGiven'
  BY <1>2 DEF Inv, SentAsGiven, Given
<1>13. Progress' /\ Buffer'
  <2>1. Len(printed') = k' - 1
    BY <1>1, <1>2, <1>3, <1>9
  <2>2. Progress'
    BY <1>1, <1>2, <1>10, <2>1 DEF Progress
  <2>3. Buffer'
    BY <1>1, <1>2, <1>4, <1>6 DEF Buffer, serverVars
  <2> QED BY <2>2, <2>3
<1>14. Upstream'
  BY <1>1, <1>2, <1>10 DEF Upstream, ServerGone, serverVars
<1>15. Bubble'
  BY <1>2, ClientFrame
<1>16. Downstream'
  <2> USE DEF serverVars
  <2>1. \A x \in 1..Len(down') : down'[x] \in Short
    BY <1>3, <1>4, <1>8
  <2>2. ASSUME Answering
        PROVE  /\ Len(printed') + Len(down') = i - 1
               /\ \A x \in 1..Len(down') : down'[x] = ptr[Len(printed') + x]
               /\ Len(printed') <= Len(ptr)
               /\ \A x \in 1..Len(printed') : printed'[x] = ptr[x]
    <3>1. /\ Len(printed) + Len(down) = i - 1 /\ i <= Len(ptr) + 1
          /\ \A x \in 1..Len(down) : down[x] = ptr[Len(printed) + x]
          /\ \A x \in 1..Len(printed) : printed[x] = ptr[x]
      BY <1>1, <2>2 DEF Downstream
    <3>2. Len(printed') + Len(down') = i - 1 /\ Len(printed') <= Len(ptr)
      BY <1>3, <1>8, <1>9, <3>1
    <3>3. \A x \in 1..Len(down') : down'[x] = ptr[Len(printed') + x]
      BY <1>3, <1>8, <1>9, <3>1
    <3>4. w = ptr[Len(printed) + 1]
      BY <1>3, <3>1 DEF w
    <3>5. \A x \in 1..Len(printed') : printed'[x] = ptr[x]
      BY <1>3, <1>9, <3>1, <3>4
    <3> QED BY <3>2, <3>3, <3>5
  <2>3. UNCHANGED <<server, ptr, i, client>>
    BY <1>2
  <2>4. Answering => i <= Len(ptr) + 1
    BY <1>1 DEF Downstream
  <2>5. server = "closed" => i = Len(ptr) + 1
    BY <1>1 DEF Downstream
  <2> QED BY <1>1, <1>4, <1>10, <2>1, <2>2, <2>3, <2>4, <2>5 DEF Downstream
<1>17. Faulted'
  BY <1>2, <1>4 DEF Faulted, serverVars
<1> QED BY <1>11, <1>12, <1>13, <1>14, <1>15, <1>16, <1>17 DEF Inv

(* It reads nothing, and prints what temp holds or fails: only when the    *)
(* server has not come to its end.                                         *)
LEMMA ReadingNothing == ASSUME Inv, ReadNothing PROVE Inv'
<1>1. /\ Types /\ Progress /\ Buffer /\ Upstream /\ Bubble /\ Downstream /\ Faulted
      /\ client = "print" /\ k <= argc1 /\ down = <<>> /\ Len(printed) = k - 1
      /\ ~Working /\ ~Asking /\ end = "fin" /\ ServerGone /\ Len(sent) = argc1
  BY DEF Inv, ReadNothing, Progress, Upstream, Downstream, Asking
<1>2. /\ argc1 \in Nat /\ argc1 >= 1 /\ k \in Nat /\ i \in Nat /\ Len(printed) \in Nat
      /\ Len(ptr) \in Nat /\ Len(down) = 0 /\ printed \in Seq(Short) /\ sent # <<>>
      /\ argc1 <= MAXITEMS => Room = argc1
  BY <1>1, Lengths
<1>3. ~Answering
  <2> SUFFICES ASSUME Answering PROVE FALSE
    OBVIOUS
  <2>1. server = "closed"
    BY <1>1 DEF Answering, ServerGone
  <2>2. Len(printed) + Len(down) = i - 1 /\ i = Len(ptr) + 1 /\ Len(ptr) = Room
    BY <1>1, <2>1 DEF Downstream, Bubble
  <2>3. argc1 <= MAXITEMS
    BY <1>1 DEF Progress
  <2> QED BY <1>1, <1>2, <2>2, <2>3
<1>4. CASE ClientFails
  BY <1>1, <1>4, Failing
<1>5. ASSUME printed' = Append(printed, CString(temp)), k' = k + 1,
             UNCHANGED <<args, zeroed, temp, client, sent, up, down, serverVars>>
      PROVE  Inv'
  <2> DEFINE w == CString(temp)
  <2>1. w \in Short
    <3>1. temp \in [1..TEMP -> Nat] /\ \E x \in 1..TEMP : temp[x] = 0
      BY <1>1, <1>2 DEF Types, Buffer
    <3> QED BY <3>1, Terminated
  <2> HIDE DEF w
  <2>2. /\ printed' \in Seq(Short) /\ Len(printed') = Len(printed) + 1
        /\ printed'[Len(printed) + 1] = w
        /\ \A x \in 1..Len(printed) : printed'[x] = printed[x]
    <3>1. printed \in Seq(Short) /\ printed' = Append(printed, w)
      BY <1>2, <1>5 DEF w
    <3> QED BY <2>1, <3>1, AppendProperties
  <2>3. argc1' = argc1 /\ Room' = Room /\ ~Asking' /\ ~Working' /\ ~Answering'
    BY <1>1, <1>3, <1>5 DEF argc1, Room, Asking, Working, Answering, serverVars
  <2>4. Types'
    <3>1. k' \in 1..(argc1 + 1)
      BY <1>1, <1>2, <1>5
    <3> QED BY <1>1, <1>5, <2>2, <2>3, <3>1 DEF Types, serverVars
  <2>5. SentAsGiven'
    BY <1>5 DEF Inv, SentAsGiven, Given
  <2>6. Progress' /\ Buffer'
    <3>1. Len(printed') = k' - 1
      BY <1>1, <1>2, <1>5, <2>2
    <3>2. Progress'
      BY <1>1, <1>5, <2>3, <3>1 DEF Progress
    <3>3. Buffer'
      BY <1>1, <1>5 DEF Buffer, CString, serverVars
    <3> QED BY <3>2, <3>3
  <2>7. Upstream'
    BY <1>1, <1>5, <2>3 DEF Upstream, ServerGone, serverVars
  <2>8. Bubble'
    BY <1>5, ClientFrame
  <2>9. Downstream'
    BY <1>1, <1>2, <1>5, <2>3 DEF Downstream, Answering, serverVars
  <2>10. Faulted'
    <3>1. ASSUME server = "segv", argc1 = 1 PROVE printed'[1] = sent[1]
      <4>1. w = sent[1]
        BY <1>1, <1>2, <3>1 DEF Buffer, w
      <4>2. Len(printed) = 0
        BY <1>1, <1>2, <3>1
      <4> QED BY <2>2, <4>1, <4>2
    <3> QED BY <1>1, <1>5, <2>3, <3>1 DEF Faulted, serverVars
  <2> QED BY <2>4, <2>5, <2>6, <2>7, <2>8, <2>9, <2>10 DEF Inv
<1> QED BY <1>4, <1>5 DEF ReadNothing

(* It has printed as many words as it has sent.                            *)
LEMMA Finishing == ASSUME Inv, Printed PROVE Inv'
<1>1. /\ Types /\ Progress /\ Buffer /\ Upstream /\ Bubble /\ Downstream /\ Faulted
      /\ client = "print" /\ k > argc1 /\ Len(printed) = k - 1 /\ ~Working /\ ~Asking
  BY DEF Inv, Printed, Progress, Downstream, Asking
<1>2. UNCHANGED <<buffers, k, up, down, serverVars>> /\ client' = "done"
  BY DEF Printed
<1>3. Len(printed) = argc1
  <2>1. k \in 1..(argc1 + 1) /\ argc1 \in Nat
    BY <1>1, Lengths DEF Types
  <2> QED BY <1>1, <2>1
<1>4. argc1' = argc1 /\ Room' = Room /\ ~Asking' /\ ~Working' /\ (Answering' => Answering)
  BY <1>1, <1>2 DEF argc1, Room, Asking, Working, Answering, buffers, serverVars
<1>5. Types'
  BY <1>1, <1>2, <1>4 DEF Types, buffers, serverVars
<1>6. SentAsGiven'
  BY <1>2 DEF Inv, SentAsGiven, Given, buffers
<1>7. Progress' /\ Buffer'
  BY <1>1, <1>2, <1>3, <1>4 DEF Progress, Buffer, CString, buffers, serverVars
<1>8. Upstream'
  BY <1>1, <1>2, <1>4 DEF Upstream, ServerGone, buffers, serverVars
<1>9. Bubble'
  BY <1>2, ClientFrame DEF buffers
<1>10. Downstream' /\ Faulted'
  BY <1>1, <1>2, <1>4 DEF Downstream, Faulted, Answering, buffers, serverVars
<1> QED BY <1>5, <1>6, <1>7, <1>8, <1>9, <1>10 DEF Inv

-----------------------------------------------------------------------------
(* The invariant, and what it is for.                                      *)

(* Every step of the two keeps the invariant.                              *)
LEMMA Kept == Inv /\ [Next]_vars => Inv'
<1> SUFFICES ASSUME Inv, [Next]_vars PROVE Inv'
  OBVIOUS
<1>1. CASE SendCount
  BY <1>1, SendingCount
<1>2. CASE SendWord
  BY <1>2, SendingWord
<1>3. CASE SendFails
  BY <1>3, Failing DEF SendFails
<1>4. CASE DataSent
  BY <1>4, EndingData
<1>5. CASE ReadCount
  BY <1>5, ReadingCount
<1>6. CASE ReadWord
  BY <1>6, ReadingWord
<1>7. CASE ReadNothing
  BY <1>7, ReadingNothing
<1>8. CASE ReadFails
  BY <1>8, Failing DEF ReadFails
<1>9. CASE Printed
  BY <1>9, Finishing
<1>10. CASE ServerCount
  BY <1>10, Counting
<1>11. CASE ServerItem
  BY <1>11, ReadingItem
<1>12. CASE ServerItemsEnd
  BY <1>12, ItemsEnding
<1>13. CASE CompareNull
  BY <1>13, ComparingNull
<1>14. CASE Compare
  BY <1>14, Comparing
<1>15. CASE Answer
  BY <1>15, AnsweringCount
<1>16. CASE WriteItem
  BY <1>16, WritingItem
<1>17. CASE ServerCloses
  BY <1>17, Closing
<1>18. CASE ServerKilled
  BY <1>18, Killing
<1>19. CASE UNCHANGED vars
  BY <1>19, Stutters
<1> QED BY <1>1, <1>2, <1>3, <1>4, <1>5, <1>6, <1>7, <1>8, <1>9, <1>10, <1>11, <1>12, <1>13,
           <1>14, <1>15, <1>16, <1>17, <1>18, <1>19 DEF Next, ClientStep, ServerStep

(* Whatever is sent, whoever is killed and however the steps of the client *)
(* and of the server interleave, the invariant holds.                      *)
THEOREM Invariance == Spec => []Inv
<1>1. Init => Inv
  BY Begins
<1>2. Inv /\ [Next]_vars => Inv'
  BY Kept
<1> QED BY <1>1, <1>2, PTL DEF Spec

(* A client served to the end has printed the items of the server.         *)
LEMMA Sorted == ASSUME Inv PROVE SortedAnswer
<1>1. /\ Types /\ Progress /\ Bubble /\ Downstream /\ Faulted
  BY DEF Inv
<1>2. /\ argc1 \in Nat /\ argc1 >= 1 /\ Len(ptr) \in Nat /\ Len(printed) \in Nat
      /\ sent \in Seq(Short) /\ printed \in Seq(Short)
      /\ argc1 <= MAXITEMS => Room = argc1
      /\ sent = <<>> <=> Len(sent) = 0
      /\ printed = <<>> <=> Len(printed) = 0
  BY <1>1, Lengths
<1>3. ASSUME client = "done", server = "closed"
      PROVE  /\ Permutation(printed, sent)
             /\ \A x \in 1..(argc1 - 1) : ~Greater(printed[x], printed[x + 1])
  <2>1. /\ Len(printed) = argc1 /\ Len(sent) = argc1 /\ Len(ptr) = argc1
        /\ Rearranged /\ Ordered(ptr, argc1)
        /\ \A x \in 1..argc1 : printed[x] = ptr[x]
    <3>1. Len(printed) = argc1 /\ Len(sent) = argc1 /\ Room = argc1
      BY <1>1, <1>2, <1>3 DEF Progress
    <3>2. Len(ptr) = Room /\ Rearranged /\ Ordered(ptr, Len(ptr))
      BY <1>1, <1>3 DEF Bubble, Answering
    <3>3. \A x \in 1..Len(printed) : printed[x] = ptr[x]
      BY <1>1, <1>3 DEF Downstream, Answering
    <3> QED BY <3>1, <3>2, <3>3
  <2>2. Permutation(printed, sent)
    BY <2>1 DEF Rearranged, Permutation
  <2>3. ASSUME NEW x \in 1..(argc1 - 1) PROVE ~Greater(printed[x], printed[x + 1])
    <3>1. x \in 1..argc1 /\ x + 1 \in 1..argc1
      BY <1>2
    <3> QED BY <2>1, <3>1 DEF Ordered
  <2> QED BY <2>2, <2>3
<1>4. server = "segv" => argc1 = 1 \/ argc1 >= MAXITEMS
  BY <1>1 DEF Faulted
<1>5. ASSUME server = "segv", argc1 = 1, client = "done" PROVE printed = sent
  <2>1. Len(printed) = 1 /\ Len(sent) = 1
    BY <1>1, <1>5 DEF Progress
  <2>2. printed[1] = sent[1]
    BY <1>1, <1>2, <1>5, <2>1 DEF Faulted
  <2> QED BY <1>2, <2>1, <2>2, SeqEqual
<1>6. argc1 > MAXITEMS => client # "done"
  <2>1. client = "done" => argc1 <= MAXITEMS
    BY <1>1 DEF Progress
  <2> QED BY <1>2, <2>1, SizeAssumption
<1> QED BY <1>3, <1>4, <1>5, <1>6 DEF SortedAnswer

(* The client sends what it was given, cut to its buffer; and when it is   *)
(* served to the end it prints a permutation of what it has sent, in order.*)
(* A server that dies of what it looks at has been given one word, or as   *)
(* many as it has room for.                                                *)
THEOREM Served == Spec => []SortServed
<1>1. ASSUME Inv PROVE SortServed
  <2>1. Types
    BY <1>1 DEF Inv
  <2>2. Short \subseteq Word
    BY DEF Short
  <2>3. sent \in Seq(Word) /\ printed \in Seq(Word) /\ ptr \in Seq(Word)
    BY <2>1, <2>2, SeqMonotonic DEF Types
  <2>4. TypeOK
    BY <2>1, <2>3 DEF Types, TypeOK
  <2>5. SentAsGiven /\ SortedAnswer
    BY <1>1, Sorted DEF Inv
  <2> QED BY <2>4, <2>5 DEF SortServed
<1>2. Inv => SortServed
  BY <1>1
<1> QED BY <1>2, Invariance, PTL

-----------------------------------------------------------------------------
(***************************************************************************)
(* Pipes and FIFOs (Pipes), for any sizes, whoever is killed when.  Until  *)
(* the theorem PipesTyped: where everybody is in his script, and what he   *)
(* holds open there.                                                       *)
(***************************************************************************)
Family == ~Strangers
Dead == {"exited", "killed", "SIGPIPE"}
Reader == {"read", "readfor", "readtoend"}
Writer == {"write", "reply"}
Byte == (0..5) \X (0..3)
Both(f) == {<<f, "r">>, <<f, "w">>}

(* What is open at place x of the script of p, in a family.                *)
Owned(p, x) ==
    CASE program = "Pipe1" -> IF x = 1 THEN {} ELSE Both(1)
      [] program = "Pipe2" -> IF p = 1 THEN IF x = 1 THEN {} ELSE IF x <= 3 THEN Both(1) ELSE {<<1, "r">>}
                              ELSE IF x = 1 THEN Both(1) ELSE {<<1, "w">>}
      [] program = "Pipe3" -> IF p = 1 THEN IF x = 1 \/ x >= 7 THEN {} ELSE IF x <= 3 THEN Both(1)
                                            ELSE {<<1, "w">>}
                              ELSE IF x = 1 THEN Both(1) ELSE IF x <= 3 THEN {<<1, "r">>} ELSE {}
      [] program = "Pipe4" -> IF p = 1 THEN IF x = 1 \/ x >= 7 THEN {} ELSE IF x <= 3 THEN Both(1)
                                            ELSE {<<1, "r">>}
                              ELSE IF x = 1 THEN Both(1) ELSE {<<1, "w">>}
      [] program = "Pipe5" -> IF p = 1 THEN IF x = 1 THEN {} ELSE IF x <= 3 THEN Both(1) ELSE {<<1, "w">>}
                              ELSE IF x = 1 THEN Both(1) ELSE {<<1, "r">>}
      [] program = "block" -> IF p = 1 /\ x = 1 THEN {} ELSE Both(1)
      [] program = "shell" -> CASE p = 1 -> IF x \in {2, 3} THEN Both(1) ELSE IF x \in {4, 5} THEN {<<1, "r">>}
                                            ELSE IF x \in {9, 10} THEN Both(2)
                                            ELSE IF x \in {11, 12} THEN {<<2, "r">>} ELSE {}
                                [] p = 2 -> Both(1) [] p = 3 -> {<<1, "r">>}
                                [] p = 4 -> Both(2) [] p = 5 -> {<<2, "r">>}

(* What a stranger may have open.                                          *)
Side(p) == IF p \in Server THEN {<<1, "r">>, <<2, "w">>} ELSE {<<1, "w">>, <<2, "r">>}

(* Where the writes of p are, and how many of them stand before place x.   *)
FirstWrite(p) ==
    CASE program \in {"Pipe1", "Pipe2", "Pipe4", "half"} -> 2
      [] program \in {"Pipe3", "Pipe5"} -> 4
      [] program = "block" -> 3 [] program = "shell" -> 1
      [] program = "full" -> IF p \in Server THEN 6 ELSE 3
Span == IF program \in {"Pipe1", "Pipe2"} THEN 3 ELSE IF program = "Pipe3" THEN 2 ELSE 1
Turn(p, x) == IF x <= FirstWrite(p) THEN 0
              ELSE IF x - FirstWrite(p) < Span THEN x - FirstWrite(p) ELSE Span

(* The place of the fork() that starts q.                                  *)
Birth(q) == IF program = "shell" THEN IF q = 2 THEN 2 ELSE IF q = 3 THEN 4 ELSE IF q = 4 THEN 9 ELSE 11
            ELSE IF program # "Pipe1" /\ q = 2 THEN 2 ELSE 16

(* What a script says at place x.                                          *)
CallFacts(p, x) ==
    LET c == Script(p)[x] IN
    /\ c.op = "pipe" => /\ Family /\ p = 1 /\ c.pipe \in Pipe
                        /\ Owned(p, x) = {} /\ Owned(p, x + 1) = Both(c.pipe)
    /\ c.op = "fork" => /\ Family /\ p = 1 /\ c.child \in Process \ {1} /\ Birth(c.child) = x
                        /\ Owned(c.child, 1) = Owned(p, x)
                        /\ (c.survives => program = "shell" /\ c.child \in {3, 5})
                        /\ \A q \in Process \ {1} : Birth(q) = x => q = c.child
    /\ c.op = "close" => /\ Family /\ <<c.pipe, c.end>> \in Ends
                         /\ Owned(p, x + 1) = Owned(p, x) \ {<<c.pipe, c.end>>}
    /\ c.op \in Writer => /\ c.pipe \in Pipe /\ c.n \in Nat
                          /\ FirstWrite(p) <= x /\ x < FirstWrite(p) + Span
                          /\ Family => <<c.pipe, "w">> \in Owned(p, x)
    /\ c.op = "reply" => c.n = 1
    /\ c.op \in Reader => /\ c.pipe \in Pipe /\ c.n \in Nat \ {0} /\ c.until \in Nat
                          /\ Family => <<c.pipe, "r">> \in Owned(p, x)
    /\ c.op = "mkfifo" => Strangers /\ c.pipe \in Pipe
    /\ c.op = "open" => Strangers /\ <<c.pipe, c.end>> \in Side(p)
    /\ c.op = "waitfor" => c.child \in {3, 5} /\ program = "shell"
    /\ Family /\ c.op \notin {"pipe", "close"} => Owned(p, x + 1) = Owned(p, x)
    /\ Family /\ p = 1 /\ c.op # "fork" => \A q \in Process \ {1} : Birth(q) # x

(* Nobody is beyond the end of his script or has written too much; a       *)
(* write() that is not through is a long one; who has not begun has done   *)
(* nothing.                                                                *)
InPlace == \A p \in Process : pc[p] <= Len(Script(p)) + 1
InTurn == \A p \in Process : messages[p] <= Turn(p, pc[p])
PartOf(p, b) == /\ pc[p] <= Len(Script(p)) /\ Call(p).op = "write" /\ b < Call(p).n
                /\ ~Atomic(Call(p).n) /\ (Running(p) => Has(p, "w"))
Partial == \A p \in Process : done[p] # 0 => PartOf(p, done[p])
Unborn == \A p \in Process : life[p] = "none" =>
              pc[p] = 1 /\ messages[p] = 0 /\ done[p] = 0 /\ got[p] = <<>>
Typed == PipesTypeOK /\ InPlace /\ InTurn /\ Partial /\ Unborn

(* Who holds what, and who lives when.                                     *)
Holding == \A p \in Process :
    IF Running(p) THEN IF Strangers THEN held[p] \subseteq Side(p) ELSE held[p] = Owned(p, pc[p])
    ELSE held[p] = {}
Births == IF Strangers THEN \A p \in Process \ Users : life[p] = "none"
          ELSE \A q \in Process \ {1} :
                   /\ life[q] # "none" => pc[1] > Birth(q)
                   /\ pc[1] > Birth(q) /\ ~(program = "shell" /\ q \in {3, 5}) => life[q] # "none"
Deaths == /\ \A p \in reaped : life[p] \in Dead
          /\ \A p \in Process :
                /\ life[p] = "exited" => pc[p] > Len(Script(p)) \/ Call(p).op = "fork"
                /\ life[p] = "SIGPIPE" => pc[p] <= Len(Script(p)) /\ Call(p).op \in {"write", "reply"}
Alive == Typed /\ Holding /\ Births /\ Deaths

(* No script is longer than ShellLoop.                                     *)
LEMMA ScriptLengths ==
    ASSUME program \in Programs, NEW p \in Process
    PROVE  Len(Script(p)) \in Nat /\ Len(Script(p)) <= 14
  <1> USE ProgramAssumption DEF Script, Pipe1, Pipe2Parent, Pipe2Child, Pipe3Parent, Pipe3Child,
          Pipe4Parent, Pipe4Child, Pipe5Parent, Pipe5Child, BlockParent, BlockChild, HalfServer,
          HalfClient, FullServer, FullClient, ShellLoop, ShellCommand, ShellReader
  <1>1. Len(Script(p)) \in Nat
    OBVIOUS
  <1>2. Len(Script(p)) <= 14
    OBVIOUS
  <1> QED
    BY <1>1, <1>2

(* What the calls of the programs are about, by enumeration of the scripts.*)
LEMMA Calls ==
    ASSUME program \in Programs, size \in Nat, NEW p \in Process, NEW x \in 1..Len(Script(p))
    PROVE  CallFacts(p, x)
  <1> USE PipeSizeAssumption, ProgramAssumption
  <1>1. CASE program = "Pipe1"
    <2>1. CASE p = 1
      BY <1>1, <2>1 DEF Pipe1,
          CallFacts, Script, Owned, FirstWrite, Span, Birth, Process, Pipe, Ends, Server, Client,
          Family, Strangers, Both, Side, Writer, Reader,
          MakePipe, Fork, ForkReader, Close, Write, Reply, Read, ReadFor, ReadToEnd,
          Mkfifo, Open, Wait, WaitFor, Reap
    <2>2. p = 1
      BY <1>1 DEF Script, Process, Server
    <2> QED
      BY <2>1, <2>2
  <1>2. CASE program = "Pipe2"
    <2>1. CASE p = 1
      BY <1>2, <2>1 DEF Pipe2Parent,
          CallFacts, Script, Owned, FirstWrite, Span, Birth, Process, Pipe, Ends, Server, Client,
          Family, Strangers, Both, Side, Writer, Reader,
          MakePipe, Fork, ForkReader, Close, Write, Reply, Read, ReadFor, ReadToEnd,
          Mkfifo, Open, Wait, WaitFor, Reap
    <2>2. CASE p = 2
      BY <1>2, <2>2 DEF Pipe2Child,
          CallFacts, Script, Owned, FirstWrite, Span, Birth, Process, Pipe, Ends, Server, Client,
          Family, Strangers, Both, Side, Writer, Reader,
          MakePipe, Fork, ForkReader, Close, Write, Reply, Read, ReadFor, ReadToEnd,
          Mkfifo, Open, Wait, WaitFor, Reap
    <2>3. p = 1 \/ p = 2
      BY <1>2 DEF Script, Process, Server
    <2> QED
      BY <2>1, <2>2, <2>3
  <1>3. CASE program = "Pipe3"
    <2>1. CASE p = 1
      BY SMTT(30), <1>3, <2>1 DEF Pipe3Parent,
          CallFacts, Script, Owned, FirstWrite, Span, Birth, Process, Pipe, Ends, Server, Client,
          Family, Strangers, Both, Side, Writer, Reader,
          MakePipe, Fork, ForkReader, Close, Write, Reply, Read, ReadFor, ReadToEnd,
          Mkfifo, Open, Wait, WaitFor, Reap
    <2>2. CASE p = 2
      BY <1>3, <2>2 DEF Pipe3Child,
          CallFacts, Script, Owned, FirstWrite, Span, Birth, Process, Pipe, Ends, Server, Client,
          Family, Strangers, Both, Side, Writer, Reader,
          MakePipe, Fork, ForkReader, Close, Write, Reply, Read, ReadFor, ReadToEnd,
          Mkfifo, Open, Wait, WaitFor, Reap
    <2>3. p = 1 \/ p = 2
      BY <1>3 DEF Script, Process, Server
    <2> QED
      BY <2>1, <2>2, <2>3
  <1>4. CASE program = "Pipe4"
    <2>1. CASE p = 1
      BY SMTT(30), <1>4, <2>1 DEF Pipe4Parent,
          CallFacts, Script, Owned, FirstWrite, Span, Birth, Process, Pipe, Ends, Server, Client,
          Family, Strangers, Both, Side, Writer, Reader,
          MakePipe, Fork, ForkReader, Close, Write, Reply, Read, ReadFor, ReadToEnd,
          Mkfifo, Open, Wait, WaitFor, Reap
    <2>2. CASE p = 2
      BY <1>4, <2>2 DEF Pipe4Child,
          CallFacts, Script, Owned, FirstWrite, Span, Birth, Process, Pipe, Ends, Server, Client,
          Family, Strangers, Both, Side, Writer, Reader,
          MakePipe, Fork, ForkReader, Close, Write, Reply, Read, ReadFor, ReadToEnd,
          Mkfifo, Open, Wait, WaitFor, Reap
    <2>3. p = 1 \/ p = 2
      BY <1>4 DEF Script, Process, Server
    <2> QED
      BY <2>1, <2>2, <2>3
  <1>5. CASE program = "Pipe5"
    <2>1. CASE p = 1
      BY <1>5, <2>1 DEF Pipe5Parent,
          CallFacts, Script, Owned, FirstWrite, Span, Birth, Process, Pipe, Ends, Server, Client,
          Family, Strangers, Both, Side, Writer, Reader,
          MakePipe, Fork, ForkReader, Close, Write, Reply, Read, ReadFor, ReadToEnd,
          Mkfifo, Open, Wait, WaitFor, Reap
    <2>2. CASE p = 2
      BY <1>5, <2>2 DEF Pipe5Child,
          CallFacts, Script, Owned, FirstWrite, Span, Birth, Process, Pipe, Ends, Server, Client,
          Family, Strangers, Both, Side, Writer, Reader,
          MakePipe, Fork, ForkReader, Close, Write, Reply, Read, ReadFor, ReadToEnd,
          Mkfifo, Open, Wait, WaitFor, Reap
    <2>3. p = 1 \/ p = 2
      BY <1>5 DEF Script, Process, Server
    <2> QED
      BY <2>1, <2>2, <2>3
  <1>6. CASE program = "block"
    <2>1. CASE p = 1
      BY <1>6, <2>1 DEF BlockParent,
          CallFacts, Script, Owned, FirstWrite, Span, Birth, Process, Pipe, Ends, Server, Client,
          Family, Strangers, Both, Side, Writer, Reader,
          MakePipe, Fork, ForkReader, Close, Write, Reply, Read, ReadFor, ReadToEnd,
          Mkfifo, Open, Wait, WaitFor, Reap
    <2>2. CASE p = 2
      BY <1>6, <2>2 DEF BlockChild,
          CallFacts, Script, Owned, FirstWrite, Span, Birth, Process, Pipe, Ends, Server, Client,
          Family, Strangers, Both, Side, Writer, Reader,
          MakePipe, Fork, ForkReader, Close, Write, Reply, Read, ReadFor, ReadToEnd,
          Mkfifo, Open, Wait, WaitFor, Reap
    <2>3. p = 1 \/ p = 2
      BY <1>6 DEF Script, Process, Server
    <2> QED
      BY <2>1, <2>2, <2>3
  <1>7. CASE program = "half"
    <2>1. CASE p \in Server
      BY <1>7, <2>1 DEF HalfServer,
          CallFacts, Script, Owned, FirstWrite, Span, Birth, Process, Pipe, Ends, Server, Client,
          Family, Strangers, Both, Side, Writer, Reader,
          MakePipe, Fork, ForkReader, Close, Write, Reply, Read, ReadFor, ReadToEnd,
          Mkfifo, Open, Wait, WaitFor, Reap
    <2>2. CASE p \notin Server
      BY <1>7, <2>2 DEF HalfClient,
          CallFacts, Script, Owned, FirstWrite, Span, Birth, Process, Pipe, Ends, Server, Client,
          Family, Strangers, Both, Side, Writer, Reader,
          MakePipe, Fork, ForkReader, Close, Write, Reply, Read, ReadFor, ReadToEnd,
          Mkfifo, Open, Wait, WaitFor, Reap
    <2>3. p \in Server \/ p \notin Server
      BY <1>7 DEF Script, Process, Server
    <2> QED
      BY <2>1, <2>2, <2>3
  <1>8. CASE program = "full"
    <2>1. CASE p \in Server
      BY <1>8, <2>1 DEF FullServer,
          CallFacts, Script, Owned, FirstWrite, Span, Birth, Process, Pipe, Ends, Server, Client,
          Family, Strangers, Both, Side, Writer, Reader,
          MakePipe, Fork, ForkReader, Close, Write, Reply, Read, ReadFor, ReadToEnd,
          Mkfifo, Open, Wait, WaitFor, Reap
    <2>2. CASE p \notin Server
      BY <1>8, <2>2 DEF FullClient,
          CallFacts, Script, Owned, FirstWrite, Span, Birth, Process, Pipe, Ends, Server, Client,
          Family, Strangers, Both, Side, Writer, Reader,
          MakePipe, Fork, ForkReader, Close, Write, Reply, Read, ReadFor, ReadToEnd,
          Mkfifo, Open, Wait, WaitFor, Reap
    <2>3. p \in Server \/ p \notin Server
      BY <1>8 DEF Script, Process, Server
    <2> QED
      BY <2>1, <2>2, <2>3
  <1>9. CASE program = "shell"
    <2>1. CASE p = 1
      BY <1>9, <2>1 DEF ShellLoop,
          CallFacts, Script, Owned, FirstWrite, Span, Birth, Process, Pipe, Ends, Server, Client,
          Family, Strangers, Both, Side, Writer, Reader,
          MakePipe, Fork, ForkReader, Close, Write, Reply, Read, ReadFor, ReadToEnd,
          Mkfifo, Open, Wait, WaitFor, Reap
    <2>2. CASE p \in {2, 4}
      BY <1>9, <2>2 DEF ShellCommand,
          CallFacts, Script, Owned, FirstWrite, Span, Birth, Process, Pipe, Ends, Server, Client,
          Family, Strangers, Both, Side, Writer, Reader,
          MakePipe, Fork, ForkReader, Close, Write, Reply, Read, ReadFor, ReadToEnd,
          Mkfifo, Open, Wait, WaitFor, Reap
    <2>3. CASE p \in {3, 5}
      <3>1. x \in 1..1
        BY <1>9, <2>3 DEF Script, ShellReader
      <3>2. CASE x = 1
        BY SMTT(30), <1>9, <2>3, <3>2 DEF ShellReader,
          CallFacts, Script, Owned, FirstWrite, Span, Birth, Process, Pipe, Ends, Server, Client,
          Family, Strangers, Both, Side, Writer, Reader,
          MakePipe, Fork, ForkReader, Close, Write, Reply, Read, ReadFor, ReadToEnd,
          Mkfifo, Open, Wait, WaitFor, Reap
      <3> QED
        BY <3>1, <3>2
    <2>4. p = 1 \/ p \in {2, 4} \/ p \in {3, 5}
      BY <1>9 DEF Script, Process, Server
    <2> QED
      BY <2>1, <2>2, <2>3, <2>4
  <1> QED
    BY <1>1, <1>2, <1>3, <1>4, <1>5, <1>6, <1>7, <1>8, <1>9

(* What runs never changes, and with it the scripts and what is known of   *)
(* their places.                                                           *)
LEMMA SameScripts ==
    ASSUME choice' = choice
    PROVE  /\ program' = program /\ size' = size /\ background' = background
           /\ Strangers' = Strangers /\ Family' = Family
           /\ \A p \in Process : Script(p)' = Script(p)
           /\ \A q \in Process : /\ Birth(q)' = Birth(q) /\ Side(q)' = Side(q)
                                 /\ Owned(q, pc[q])' = Owned(q, pc'[q])
                                 /\ Turn(q, pc[q])' = Turn(q, pc'[q])
  BY DEF choice, Strangers, Family, Script, Birth, Side, Server, Owned, Turn, FirstWrite, Span, Pipe1,
         Pipe2Parent, Pipe2Child, Pipe3Parent, Pipe3Child, Pipe4Parent, Pipe4Child,
         Pipe5Parent, Pipe5Child, BlockParent, BlockChild, HalfServer, HalfClient,
         FullServer, FullClient, ShellLoop, ShellCommand, ShellReader

(* A process in a call.                                                    *)
LEMMA InACall ==
    ASSUME PipesTypeOK, NEW p \in Process, pc[p] <= Len(Script(p))
    PROVE  /\ pc[p] \in 1..Len(Script(p)) /\ Len(Script(p)) \in Nat /\ Len(Script(p)) <= 14
           /\ size \in Nat /\ CallFacts(p, pc[p])
  <1>1. program \in Programs /\ size \in Nat /\ pc[p] \in 1..15
    BY PipeSizeAssumption DEF PipesTypeOK
  <1>2. Len(Script(p)) \in Nat /\ Len(Script(p)) <= 14
    BY <1>1, ScriptLengths
  <1>3. pc[p] \in 1..Len(Script(p))
    BY <1>1, <1>2
  <1> QED
    BY <1>1, <1>2, <1>3, Calls

(* How many writes come before a place.                                    *)
LEMMA Turning ==
    ASSUME NEW p \in Process, NEW x \in Nat, program \in Programs
    PROVE  /\ Turn(p, x) \in Nat /\ Turn(p, x + 1) \in Nat
           /\ Turn(p, x) <= Turn(p, x + 1) /\ Turn(p, x + 1) <= 3
           /\ Script(p)[x].op \in Writer /\ x \in 1..Len(Script(p)) /\ CallFacts(p, x)
                => Turn(p, x + 1) = Turn(p, x) + 1
  <1>1. FirstWrite(p) \in Nat /\ Span \in 1..3
    BY ProgramAssumption DEF FirstWrite, Span
  <1>2. ASSUME CallFacts(p, x), Script(p)[x].op \in Writer
        PROVE  FirstWrite(p) <= x /\ x < FirstWrite(p) + Span
    BY <1>2 DEF CallFacts
  <1> QED
    BY <1>1, <1>2 DEF Turn

(* Nobody holds anything before the beginning.                             *)
LEMMA Beginning == PipesInit => Alive
  <1> SUFFICES ASSUME PipesInit PROVE Alive
    OBVIOUS
  <1>1. program \in Programs /\ size \in Nat /\ size \in Sizes \cup {0} /\ background \in BOOLEAN
    <2>1. program \in Programs /\ size \in Sizes \cup {0}
      BY DEF PipesInit
    <2>2. background \in BOOLEAN
      BY DEF PipesInit
    <2> QED
      BY <2>1, <2>2, PipeSizeAssumption
  <1>2. PipesTypeOK
    BY <1>1 DEF PipesInit, PipesTypeOK
  <1>3. InPlace
    BY <1>1, ScriptLengths DEF PipesInit, InPlace
  <1>4. InTurn
    <2>1. ASSUME NEW p \in Process PROVE Turn(p, 1) \in Nat
      BY <1>1, Turning
    <2> QED
      BY <2>1 DEF PipesInit, InTurn
  <1>5. Partial /\ Unborn /\ Holding
    BY DEF PipesInit, Partial, Unborn, Holding, Running
  <1>6. Births
    <2>1. ASSUME NEW q \in Process \ {1} PROVE ~(pc[1] > Birth(q))
      BY DEF PipesInit, Birth, Process
    <2> QED
      BY <2>1 DEF PipesInit, Births, Process
  <1>7. Deaths
    BY DEF PipesInit, Deaths
  <1> QED
    BY <1>2, <1>3, <1>4, <1>5, <1>6, <1>7 DEF Alive, Typed

(* A call that returns and moves no bytes: what is open, who was waited for*)
(* and the place fit the tables.                                           *)
Ahead(p) ==
    /\ Running(p) /\ pc[p] <= Len(Script(p)) /\ done[p] = 0
    /\ Returns(p) /\ UNCHANGED <<choice, life, flow>>
    /\ fifos' \subseteq Pipe
    /\ reaped' \subseteq Process /\ \A q \in reaped' : life[q] \in Dead
    /\ held' \in [Process -> SUBSET Ends] /\ \A q \in Process \ {p} : held'[q] = held[q]
    /\ IF Strangers THEN held'[p] \subseteq Side(p)
       ELSE /\ held'[p] = Owned(p, pc[p] + 1)
            /\ p = 1 => \A q \in Process \ {1} :
                          Birth(q) # pc[1] \/ (program = "shell" /\ q \in {3, 5})

(* Such a call keeps everything in its place.                              *)
LEMMA Advancing ==
    ASSUME Alive, NEW p \in Process, Ahead(p)
    PROVE  Alive'
  <1>1. /\ choice' = choice /\ life' = life /\ content' = content /\ done' = done
        /\ messages' = messages /\ got' = got /\ pc' = [pc EXCEPT ![p] = pc[p] + 1]
        /\ life[p] = "run" /\ pc[p] <= Len(Script(p)) /\ done[p] = 0
        /\ held' \in [Process -> SUBSET Ends] /\ (\A q \in Process \ {p} : held'[q] = held[q])
    BY DEF Ahead, flow, Returns, Running
  <1>2. PipesTypeOK /\ pc \in [Process -> 1..15] /\ messages \in [Process -> 0..3]
        /\ program \in Programs
    BY DEF Alive, Typed, PipesTypeOK
  <1>3. pc[p] \in 1..Len(Script(p)) /\ Len(Script(p)) \in Nat /\ Len(Script(p)) <= 14 /\ pc'[p] = pc[p] + 1
    BY <1>1, <1>2, InACall
  <1>4. \A q \in Process \ {p} : pc'[q] = pc[q]
    BY <1>1, <1>2
  <1>13. fifos' \subseteq Pipe /\ reaped' \subseteq Process /\ (\A q \in reaped' : life[q] \in Dead)
    BY DEF Ahead
  <1>14. /\ Strangers => held'[p] \subseteq Side(p)
         /\ ~Strangers => held'[p] = Owned(p, pc[p] + 1)
         /\ ~Strangers /\ p = 1 => \A q \in Process \ {1} :
                Birth(q) # pc[1] \/ (program = "shell" /\ q \in {3, 5})
    BY DEF Ahead
  <1>5. PipesTypeOK'
    <2>1. pc' \in [Process -> 1..15]
      <3>1. pc[p] + 1 \in 1..15
        BY SMTT(30), <1>3
      <3> QED
        BY <3>1, <1>1, <1>2
    <2> QED
      BY <1>1, <1>2, <1>13, <2>1, SameScripts DEF PipesTypeOK
  <1>6. InPlace'
    BY <1>1, <1>2, <1>3, <1>4, SameScripts DEF InPlace, Alive, Typed
  <1>7. InTurn'
    <2>1. ASSUME NEW q \in Process PROVE messages[q] <= Turn(q, pc'[q])
      <3>1. messages[q] \in Nat /\ messages[q] <= Turn(q, pc[q]) /\ pc[q] \in Nat
        BY <1>2 DEF Alive, Typed, InTurn
      <3>2. Turn(q, pc[q]) \in Nat /\ Turn(q, pc[q] + 1) \in Nat /\ Turn(q, pc[q]) <= Turn(q, pc[q] + 1)
        BY <3>1, <1>2, Turning
      <3> QED
        BY <3>1, <3>2, <1>3, <1>4
    <2> QED
      BY <2>1, <1>1, SameScripts DEF InTurn
  <1>8. Partial'
    BY <1>1, <1>4, SameScripts DEF Partial, Alive, Typed, PartOf, Call, Has, Running, Atomic
  <1>9. Unborn'
    BY <1>1, <1>4 DEF Unborn, Alive, Typed
  <1>10. Holding'
    <2>1. ASSUME NEW q \in Process \ {p}, Running(q), ~Strangers PROVE held[q] = Owned(q, pc[q]) /\ pc[q] \in Int
      BY <2>1, <1>2 DEF Alive, Holding
    <2>2. ASSUME NEW q \in Process PROVE
            IF life'[q] = "run" THEN IF Strangers THEN held'[q] \subseteq Side(q) ELSE held'[q] = Owned(q, pc'[q])
            ELSE held'[q] = {}
      BY <2>1, <1>1, <1>3, <1>4, <1>14 DEF Alive, Holding, Running
    <2> QED
      BY <2>2, <1>1, SameScripts DEF Holding, Running
  <1>11. Births'
    <2>1. ASSUME NEW q \in Process \ {1}, ~Strangers
          PROVE  /\ life[q] # "none" => pc'[1] > Birth(q)
                 /\ pc'[1] > Birth(q) /\ ~(program = "shell" /\ q \in {3, 5}) => life[q] # "none"
      <3>1. Birth(q) \in Nat
        BY DEF Birth
      <3>2. /\ life[q] # "none" => pc[1] > Birth(q)
            /\ pc[1] > Birth(q) /\ ~(program = "shell" /\ q \in {3, 5}) => life[q] # "none"
        BY <2>1 DEF Alive, Births
      <3> QED
        BY <2>1, <3>1, <3>2, <1>2, <1>3, <1>4, <1>14 DEF Process
    <2> QED
      BY <2>1, <1>1, SameScripts DEF Births, Alive, Users
  <1>12. Deaths'
    BY <1>1, <1>4, <1>13, SameScripts DEF Deaths, Alive, Call, Dead
  <1> QED
    BY <1>5, <1>6, <1>7, <1>8, <1>9, <1>10, <1>11, <1>12 DEF Alive, Typed

(* A process that is in a call: what is known of it.                       *)
LEMMA Placed ==
    ASSUME Alive, NEW p \in Process, NEW o, At(p, o)
    PROVE  /\ Running(p) /\ pc[p] \in Nat /\ pc[p] <= Len(Script(p)) /\ Call(p).op = o
           /\ CallFacts(p, pc[p]) /\ size \in Nat
           /\ o # "write" => done[p] = 0
           /\ Strangers => held[p] \subseteq Side(p)
           /\ Family => held[p] = Owned(p, pc[p])
           /\ held \in [Process -> SUBSET Ends] /\ reaped \subseteq Process
           /\ \A q \in reaped : life[q] \in Dead
  <1>1. PipesTypeOK /\ pc[p] <= Len(Script(p)) /\ Running(p) /\ Call(p).op = o
    BY DEF Alive, Typed, At
  <1>2. pc[p] \in Nat /\ CallFacts(p, pc[p]) /\ size \in Nat
    BY <1>1, InACall
  <1>3. o # "write" => done[p] = 0
    BY <1>1 DEF Alive, Typed, Partial, PartOf
  <1>4. (Strangers => held[p] \subseteq Side(p)) /\ (Family => held[p] = Owned(p, pc[p]))
    BY <1>1 DEF Alive, Holding, Family
  <1>5. held \in [Process -> SUBSET Ends] /\ reaped \subseteq Process
    BY <1>1 DEF PipesTypeOK
  <1>6. \A q \in reaped : life[q] \in Dead
    BY DEF Alive, Deaths
  <1> QED
    BY <1>1, <1>2, <1>3, <1>4, <1>5, <1>6

(* The calls that open and close ends of pipes in the tables.              *)
LEMMA MakingPipe ==
    ASSUME Alive, NEW p \in Process, MakesPipe(p) PROVE Alive'
  <1>1. At(p, "pipe")
    BY DEF MakesPipe
  <1>2. Family /\ p = 1 /\ Call(p).pipe \in Pipe /\ Owned(p, pc[p]) = {}
        /\ Owned(p, pc[p] + 1) = Both(Call(p).pipe) /\ \A q \in Process \ {1} : Birth(q) # pc[1]
    <2>1. Call(p).op = "pipe" /\ CallFacts(p, pc[p])
      BY <1>1, Placed
    <2> QED
      BY <2>1 DEF CallFacts, Call
  <1>3. held' = [held EXCEPT ![p] = @ \cup Both(Call(p).pipe)] /\ Both(Call(p).pipe) \subseteq Ends
    BY <1>2 DEF MakesPipe, Both, Ends
  <1>4. fifos' \subseteq Pipe
    BY DEF MakesPipe, Alive, Typed, PipesTypeOK
  <1>5. Ahead(p)
    <2>1. /\ Running(p) /\ pc[p] <= Len(Script(p)) /\ done[p] = 0 /\ held[p] = Owned(p, pc[p])
          /\ held \in [Process -> SUBSET Ends] /\ reaped \subseteq Process
          /\ \A q \in reaped : life[q] \in Dead
      BY <1>1, <1>2, Placed
    <2>2. held' \in [Process -> SUBSET Ends] /\ held'[p] = Owned(p, pc[p] + 1)
          /\ \A q \in Process \ {p} : held'[q] = held[q]
      BY <1>2, <1>3, <2>1
    <2> QED
      BY <1>2, <1>4, <2>1, <2>2 DEF Ahead, MakesPipe, Family
  <1> QED
    BY <1>5, Advancing

(* close().                                                                *)
LEMMA ClosingEnd ==
    ASSUME Alive, NEW p \in Process, Closes(p) PROVE Alive'
  <1>1. At(p, "close")
    BY DEF Closes
  <1>2. /\ Family /\ Owned(p, pc[p] + 1) = Owned(p, pc[p]) \ {<<Call(p).pipe, Call(p).end>>}
        /\ p = 1 => \A q \in Process \ {1} : Birth(q) # pc[1]
    <2>1. Call(p).op = "close" /\ CallFacts(p, pc[p])
      BY <1>1, Placed
    <2> QED
      BY <2>1 DEF CallFacts, Call
  <1>3. held' = [held EXCEPT ![p] = @ \ {<<Call(p).pipe, Call(p).end>>}]
    BY DEF Closes
  <1>4. fifos' \subseteq Pipe
    BY DEF Closes, Alive, Typed, PipesTypeOK
  <1>5. Ahead(p)
    <2>1. /\ Running(p) /\ pc[p] <= Len(Script(p)) /\ done[p] = 0 /\ held[p] = Owned(p, pc[p])
          /\ held \in [Process -> SUBSET Ends] /\ reaped \subseteq Process
          /\ \A q \in reaped : life[q] \in Dead
      BY <1>1, <1>2, Placed
    <2>2. held' \in [Process -> SUBSET Ends] /\ held'[p] = Owned(p, pc[p] + 1)
          /\ \A q \in Process \ {p} : held'[q] = held[q]
      BY <1>2, <1>3, <2>1
    <2> QED
      BY <1>2, <1>4, <2>1, <2>2 DEF Ahead, Closes, Family
  <1> QED
    BY <1>5, Advancing

(* Calls that change nothing but who was waited for and what FIFOs exist.  *)
LEMMA Passing ==
    ASSUME Alive, NEW p \in Process, NEW o, At(p, o), o \notin {"pipe", "close"}, done[p] = 0,
           o = "fork" => Call(p).survives, Returns(p), UNCHANGED <<choice, life, held, flow>>,
           fifos' \subseteq Pipe, reaped' \subseteq reaped \cup Zombies
    PROVE  Alive'
  <1>0. Call(p).op = o /\ CallFacts(p, pc[p])
    BY Placed
  <1>1. Family => Owned(p, pc[p] + 1) = Owned(p, pc[p])
    BY <1>0 DEF CallFacts, Call
  <1>2. Family /\ p = 1 => \A q \in Process \ {1} :
            Birth(q) # pc[1] \/ (program = "shell" /\ q \in {3, 5})
    BY <1>0 DEF CallFacts, Call
  <1>3. Zombies \subseteq Process /\ \A q \in Zombies : life[q] \in Dead
    BY DEF Zombies, Dead
  <1>4. Ahead(p)
    BY <1>1, <1>2, <1>3, Placed DEF Ahead, Family
  <1> QED
    BY <1>4, Advancing

(* A process ends: the kernel closes what it had open.                     *)
LEMMA Dying ==
    ASSUME Alive, NEW p \in Process, Running(p), NEW how \in Dead, Dies(p, how),
           UNCHANGED <<choice, fifos, pc, reaped, flow>>,
           how = "exited" => pc[p] > Len(Script(p)) \/ Call(p).op = "fork",
           how = "SIGPIPE" => pc[p] <= Len(Script(p)) /\ Call(p).op \in Writer
    PROVE  Alive'
  <1>1. /\ choice' = choice /\ fifos' = fifos /\ pc' = pc /\ reaped' = reaped /\ content' = content
        /\ done' = done /\ messages' = messages /\ got' = got
        /\ life' = [life EXCEPT ![p] = how] /\ held' = [held EXCEPT ![p] = {}]
    BY DEF flow, Dies
  <1>2. PipesTypeOK /\ life[p] = "run"
    BY DEF Alive, Typed, Running
  <1>3. /\ life'[p] = how /\ held'[p] = {} /\ \A q \in Process \ {p} : life'[q] = life[q] /\ held'[q] = held[q]
    BY <1>1, <1>2 DEF PipesTypeOK
  <1>4. PipesTypeOK'
    BY <1>1, <1>2, SameScripts DEF PipesTypeOK, Dead
  <1>5. InPlace' /\ InTurn'
    BY <1>1, SameScripts DEF Alive, Typed, InPlace, InTurn
  <1>6. Partial'
    BY <1>1, <1>3, SameScripts DEF Alive, Typed, Partial, PartOf, Call, Has, Running, Atomic, Dead
  <1>7. Unborn'
    BY <1>1, <1>3 DEF Alive, Typed, Unborn, Dead
  <1>8. Holding'
    BY <1>1, <1>3, SameScripts DEF Alive, Holding, Running, Dead
  <1>9. Births'
    <2>1. ASSUME NEW q \in Process PROVE (life'[q] = "none") = (life[q] = "none")
      BY <1>2, <1>3 DEF Dead
    <2> QED
      BY <1>1, <2>1, SameScripts DEF Alive, Births, Users, Process, Server, Client
  <1>10. Deaths'
    <2>1. \A q \in reaped : life'[q] \in Dead
      BY <1>1, <1>2, <1>3 DEF Alive, Deaths, PipesTypeOK
    <2>2. ASSUME NEW q \in Process
          PROVE  /\ life'[q] = "exited" => pc[q] > Len(Script(q)) \/ Call(q).op = "fork"
                 /\ life'[q] = "SIGPIPE" => pc[q] <= Len(Script(q)) /\ Call(q).op \in {"write", "reply"}
      BY <1>3 DEF Alive, Deaths, Writer
    <2> QED
      BY <1>1, <2>1, <2>2, SameScripts DEF Deaths, Call, Dead
  <1> QED
    BY <1>4, <1>5, <1>6, <1>7, <1>8, <1>9, <1>10 DEF Alive, Typed

(* A user starts a program.                                                *)
LEMMA Starting ==
    ASSUME Alive, NEW p \in Process, Start(p) PROVE Alive'
  <1>1. /\ choice' = choice /\ fifos' = fifos /\ pc' = pc /\ reaped' = reaped /\ content' = content
        /\ done' = done /\ messages' = messages /\ got' = got /\ held' = held
        /\ life' = [life EXCEPT ![p] = "run"] /\ life[p] = "none" /\ p \in Users
    BY DEF flow, Start
  <1>2. PipesTypeOK
    BY DEF Alive, Typed
  <1>3. /\ life'[p] = "run" /\ \A q \in Process \ {p} : life'[q] = life[q]
    BY <1>1, <1>2 DEF PipesTypeOK
  <1>4. pc[p] = 1 /\ done[p] = 0 /\ held[p] = {}
    BY <1>1 DEF Alive, Typed, Unborn, Holding, Running
  <1>5. PipesTypeOK'
    BY <1>1, <1>2, SameScripts DEF PipesTypeOK
  <1>6. InPlace' /\ InTurn'
    BY <1>1, SameScripts DEF Alive, Typed, InPlace, InTurn
  <1>7. Partial'
    BY <1>1, <1>3, <1>4, SameScripts DEF Alive, Typed, Partial, PartOf, Call, Has, Running, Atomic
  <1>8. Unborn'
    BY <1>1, <1>3 DEF Alive, Typed, Unborn
  <1>9. Holding'
    <2>1. ~Strangers => Owned(p, pc[p]) = {}
      BY <1>1, <1>2, <1>4, ProgramAssumption DEF Users, Owned, Strangers, PipesTypeOK
    <2> QED
      BY <1>1, <1>3, <1>4, <2>1, SameScripts DEF Alive, Holding, Running
  <1>10. Births'
    BY <1>1, <1>3, SameScripts DEF Alive, Births, Users, Process, Server, Client
  <1>11. Deaths'
    BY <1>1, <1>2, <1>3, SameScripts DEF Alive, Deaths, Call, Dead, PipesTypeOK
  <1> QED
    BY <1>5, <1>6, <1>7, <1>8, <1>9, <1>10, <1>11 DEF Alive, Typed

(* fork(): the child has what its parent has.                              *)
LEMMA Forking ==
    ASSUME Alive, NEW p \in Process, Forks(p) PROVE Alive'
  <1> DEFINE q == Call(p).child
  <1>1. At(p, "fork") /\ choice' = choice
    BY DEF Forks
  <1>2. /\ Family /\ p = 1 /\ q \in Process \ {1} /\ Birth(q) = pc[1] /\ Owned(q, 1) = Owned(p, pc[p])
        /\ Owned(p, pc[p] + 1) = Owned(p, pc[p]) /\ \A c \in Process \ {1} : Birth(c) = pc[1] => c = q
    <2>1. Call(p).op = "fork" /\ CallFacts(p, pc[p])
      BY <1>1, Placed
    <2> QED
      BY <2>1 DEF CallFacts, Call
  <1> HIDE DEF q
  <1>3. Running(p) /\ pc[p] \in Nat /\ pc[p] <= Len(Script(p)) /\ held[p] = Owned(p, pc[p]) /\ done[p] = 0
    BY <1>1, <1>2, Placed
  <1>4. PipesTypeOK /\ pc[p] \in 1..Len(Script(p)) /\ Len(Script(p)) \in Nat /\ Len(Script(p)) <= 14
    BY <1>3, InACall DEF Alive, Typed
  <1>5. /\ fifos' = fifos /\ reaped' = reaped /\ content' = content
        /\ done' = done /\ messages' = messages /\ got' = got /\ held' = [held EXCEPT ![q] = held[p]]
        /\ life' = [life EXCEPT ![q] = "run"] /\ pc' = [pc EXCEPT ![p] = pc[p] + 1]
    BY DEF flow, Forks, Returns, q
  <1>6. life[q] = "none" /\ pc[q] = 1 /\ done[q] = 0
    BY <1>2, <1>4 DEF Alive, Typed, Births, Unborn, Family, PipesTypeOK
  <1>7. /\ life'[q] = "run" /\ held'[q] = held[p] /\ pc'[p] = pc[p] + 1 /\ pc'[q] = 1
        /\ \A c \in Process \ {q} : life'[c] = life[c] /\ held'[c] = held[c]
        /\ \A c \in Process \ {p} : pc'[c] = pc[c]
    BY <1>2, <1>4, <1>5, <1>6 DEF PipesTypeOK
  <1>8. PipesTypeOK'
    <2>1. pc' \in [Process -> 1..15]
      <3>1. pc[p] + 1 \in 1..15
        BY SMTT(30), <1>4
      <3> QED
        BY <3>1, <1>4, <1>5 DEF PipesTypeOK
    <2>2. held' \in [Process -> SUBSET Ends] /\ life' \in [Process -> {"none", "run", "exited", "killed", "SIGPIPE"}]
      BY <1>4, <1>5, <1>2 DEF PipesTypeOK
    <2> QED
      BY <1>1, <1>4, <1>5, <2>1, <2>2, SameScripts DEF PipesTypeOK
  <1>9. InPlace'
    BY <1>1, <1>4, <1>7, SameScripts DEF Alive, Typed, InPlace
  <1>10. InTurn'
    <2>1. ASSUME NEW c \in Process PROVE messages[c] <= Turn(c, pc'[c])
      <3>1. messages[c] \in Nat /\ messages[c] <= Turn(c, pc[c]) /\ pc[c] \in Nat /\ program \in Programs
        <4>1. messages \in [Process -> 0..3] /\ pc \in [Process -> 1..15] /\ program \in Programs
          BY <1>4 DEF PipesTypeOK
        <4> QED
          BY <4>1 DEF Alive, Typed, InTurn
      <3>2. Turn(c, pc[c]) \in Nat /\ Turn(c, pc[c] + 1) \in Nat /\ Turn(c, pc[c]) <= Turn(c, pc[c] + 1)
        BY <3>1, Turning
      <3> QED
        BY <3>1, <3>2, <1>7
    <2> QED
      BY <2>1, <1>1, <1>5, SameScripts DEF InTurn
  <1>11. Partial'
    BY <1>1, <1>3, <1>5, <1>6, <1>7, SameScripts DEF Alive, Typed, Partial, PartOf, Call, Has, Running, Atomic
  <1>12. Unborn'
    BY <1>2, <1>3, <1>5, <1>7 DEF Alive, Typed, Unborn, Running
  <1>13. Holding'
    <2>1. ASSUME NEW c \in Process
          PROVE  IF life'[c] = "run" THEN held'[c] = Owned(c, pc'[c]) ELSE held'[c] = {}
      <3>1. IF life[c] = "run" THEN held[c] = Owned(c, pc[c]) ELSE held[c] = {}
        BY <1>2 DEF Alive, Holding, Running, Family
      <3>2. CASE c = p
        BY <1>2, <1>3, <1>7, <3>1, <3>2 DEF Running
      <3>3. CASE c = q
        BY <1>2, <1>3, <1>7, <3>3
      <3> QED
        BY <1>7, <3>1, <3>2, <3>3
    <2> QED
      BY <2>1, <1>1, <1>2, SameScripts DEF Holding, Running, Family
  <1>14. Births'
    <2>1. ASSUME NEW c \in Process \ {1}
          PROVE  /\ life'[c] # "none" => pc'[1] > Birth(c)
                 /\ pc'[1] > Birth(c) /\ ~(program = "shell" /\ c \in {3, 5}) => life'[c] # "none"
      <3>1. Birth(c) \in Nat /\ pc'[1] = pc[1] + 1 /\ pc[1] \in Nat
        BY <1>2, <1>3, <1>7 DEF Birth
      <3>2. CASE c = q
        BY <3>1, <3>2, <1>2, <1>7
      <3>3. CASE c # q
        <4>1. Birth(c) # pc[1] /\ life'[c] = life[c]
          BY <3>3, <1>2, <1>7
        <4> QED
          BY <3>1, <4>1, <1>2 DEF Alive, Births, Family
      <3> QED
        BY <3>2, <3>3
    <2> QED
      BY <2>1, <1>1, <1>2, SameScripts DEF Births, Family
  <1>15. Deaths'
    <2>1. \A c \in reaped : c # q
      BY <1>6 DEF Alive, Deaths, Dead
    <2>2. ASSUME NEW c \in Process, life'[c] # "run" PROVE life'[c] = life[c] /\ pc'[c] = pc[c]
      BY <2>2, <1>3, <1>7, <1>2, <1>6 DEF Running
    <2> QED
      BY <1>1, <1>4, <1>5, <1>7, <2>1, <2>2, SameScripts DEF Alive, Deaths, Call, Dead, PipesTypeOK
  <1> QED
    BY <1>8, <1>9, <1>10, <1>11, <1>12, <1>13, <1>14, <1>15 DEF Alive, Typed

(* The calls that only pass.                                               *)
LEMMA Waiting ==
    ASSUME Alive, NEW p \in Process, WaitsAny(p) \/ WaitsFor(p) \/ GoesOn(p) \/ Reaps(p)
    PROVE  Alive'
  <1>1. PICK o \in {"wait", "waitfor", "reap"} : At(p, o)
    BY DEF WaitsAny, WaitsFor, GoesOn, Reaps
  <1>2. Returns(p) /\ UNCHANGED <<choice, fifos, life, held, flow>> /\ reaped' \subseteq reaped \cup Zombies
    BY DEF WaitsAny, WaitsFor, GoesOn, Reaps
  <1>3. done[p] = 0 /\ fifos' \subseteq Pipe
    BY <1>1, <1>2, Placed DEF Alive, Typed, PipesTypeOK
  <1> QED
    BY <1>1, <1>2, <1>3, Passing

(* The calls on FIFOs that do not open one, and the reads that return      *)
(* nothing.                                                                *)
LEMMA GoingOn ==
    ASSUME Alive, NEW p \in Process,
           EndOfFile(p) \/ BadDescriptor(p) \/ MakesFifo(p) \/ OpenFails(p)
    PROVE  Alive'
  <1>1. PICK o \in Reader \cup {"write", "mkfifo", "open"} : At(p, o) /\ (o = "write" => ~Has(p, "w"))
    BY DEF EndOfFile, BadDescriptor, MakesFifo, OpenFails, Reading, Reader
  <1>2. Returns(p) /\ UNCHANGED <<choice, life, reaped, held, flow>>
    BY DEF EndOfFile, BadDescriptor, MakesFifo, OpenFails
  <1>3. fifos' \subseteq Pipe
    <2>1. fifos \subseteq Pipe
      BY DEF Alive, Typed, PipesTypeOK
    <2>2. MakesFifo(p) => Call(p).pipe \in Pipe
      <3>1. ASSUME MakesFifo(p) PROVE Call(p).op = "mkfifo" /\ CallFacts(p, pc[p])
        BY <3>1, Placed DEF MakesFifo
      <3> QED
        BY <3>1 DEF CallFacts, Call
    <2> QED
      BY <2>1, <2>2 DEF EndOfFile, BadDescriptor, MakesFifo, OpenFails
  <1>4. done[p] = 0
    <2>1. CASE o = "write"
      BY <1>1, <2>1 DEF Alive, Typed, Partial, PartOf, At, Running
    <2>2. CASE o # "write"
      BY <1>1, <2>2, Placed
    <2> QED
      BY <2>1, <2>2
  <1> QED
    BY <1>1, <1>2, <1>3, <1>4, Passing DEF Reader

(* fork() that fails: the program ends, or the shell goes on.              *)
LEMMA FailingFork ==
    ASSUME Alive, NEW p \in Process, ForkFails(p) PROVE Alive'
  <1>1. At(p, "fork") /\ UNCHANGED <<choice, fifos, reaped, flow>>
    BY DEF ForkFails
  <1>2. Running(p) /\ Call(p).op = "fork" /\ done[p] = 0
    BY <1>1, Placed
  <1>3. CASE Call(p).survives
    <2>1. Returns(p) /\ UNCHANGED <<life, held>>
      BY <1>3 DEF ForkFails
    <2>2. fifos' \subseteq Pipe
      BY <1>1 DEF Alive, Typed, PipesTypeOK
    <2> QED
      BY <1>1, <1>2, <1>3, <2>1, <2>2, Passing
  <1>4. CASE ~Call(p).survives
    <2>1. Dies(p, "exited") /\ UNCHANGED pc
      BY <1>4 DEF ForkFails
    <2> QED
      BY <1>1, <1>2, <2>1, Dying DEF Dead
  <1> QED
    BY <1>3, <1>4

(* write() without a reader, of nothing or of something.                   *)
LEMMA Breaking ==
    ASSUME Alive, NEW p \in Process, BreaksPipe(p) PROVE Alive'
  <1>1. PICK o \in Writer : At(p, o)
    BY DEF BreaksPipe, Writer
  <1>2. UNCHANGED <<choice, fifos, reaped, flow>>
    BY DEF BreaksPipe
  <1>3. Running(p) /\ Call(p).op = o /\ pc[p] <= Len(Script(p))
    BY <1>1, Placed
  <1>4. CASE Call(p).n = 0
    <2>1. Returns(p) /\ UNCHANGED <<life, held>>
      BY <1>4 DEF BreaksPipe
    <2>2. fifos' \subseteq Pipe
      BY <1>2 DEF Alive, Typed, PipesTypeOK
    <2>3. done[p] = 0
      BY <1>4, PipeSizeAssumption DEF Alive, Typed, Partial, PartOf, Atomic
    <2> QED
      BY <1>1, <1>2, <2>1, <2>2, <2>3, Passing DEF Writer
  <1>5. CASE Call(p).n # 0
    <2>1. Dies(p, "SIGPIPE") /\ UNCHANGED pc
      BY <1>5 DEF BreaksPipe
    <2> QED
      BY <1>2, <1>3, <2>1, Dying DEF Dead, Writer
  <1> QED
    BY <1>4, <1>5

(* exit(), or a user who kills.                                            *)
LEMMA Ending ==
    ASSUME Alive, NEW p \in Process, Exit(p) \/ Kill(p) PROVE Alive'
  <1>1. PICK how \in {"exited", "killed"} :
            Dies(p, how) /\ (how = "exited" => pc[p] > Len(Script(p)))
    BY DEF Exit, Kill
  <1>2. Running(p) /\ UNCHANGED <<choice, fifos, pc, reaped, flow>>
    BY DEF Exit, Kill
  <1> QED
    BY <1>1, <1>2, Dying DEF Dead


(* A process writes or reads: bytes move, and it may go on.                *)
Moves(p) ==
    /\ UNCHANGED <<choice, fifos, life, reaped, held>>
    /\ Running(p) /\ pc[p] <= Len(Script(p)) /\ Call(p).op \in Writer \cup Reader
    /\ content' \in [Pipe -> Seq(Byte)] /\ got' \in [Process -> Seq(Byte)]
    /\ done' \in [Process -> Nat] /\ messages' \in [Process -> 0..3]
    /\ \A q \in Process \ {p} : got'[q] = got[q] /\ done'[q] = done[q] /\ messages'[q] = messages[q]
    /\ \/ pc' = pc /\ messages'[p] = messages[p] /\ (done'[p] # 0 => PartOf(p, done'[p]))
       \/ /\ Returns(p) /\ done'[p] = 0
          /\ messages'[p] = IF Call(p).op \in Writer THEN messages[p] + 1 ELSE messages[p]

(* Such a step keeps everything in its place.                              *)
LEMMA Moving ==
    ASSUME Alive, NEW p \in Process, Moves(p) PROVE Alive'
  <1>1. /\ choice' = choice /\ fifos' = fifos /\ life' = life /\ reaped' = reaped /\ held' = held
        /\ life[p] = "run" /\ pc[p] <= Len(Script(p)) /\ Call(p).op \in Writer \cup Reader
    BY DEF Moves, Running
  <1>2. /\ content' \in [Pipe -> Seq(Byte)] /\ got' \in [Process -> Seq(Byte)]
        /\ done' \in [Process -> Nat] /\ messages' \in [Process -> 0..3]
    BY DEF Moves
  <1>3. /\ pc \in [Process -> 1..15] /\ messages \in [Process -> 0..3] /\ done \in [Process -> Nat]
        /\ program \in Programs /\ reaped \subseteq Process
    BY DEF Alive, Typed, PipesTypeOK
  <1>4. \A q \in Process \ {p} : /\ got'[q] = got[q] /\ done'[q] = done[q]
                                 /\ messages'[q] = messages[q]
    BY DEF Moves
  <1>5. \/ pc' = pc /\ messages'[p] = messages[p] /\ (done'[p] # 0 => PartOf(p, done'[p]))
        \/ /\ pc' = [pc EXCEPT ![p] = pc[p] + 1] /\ done'[p] = 0
           /\ messages'[p] = IF Call(p).op \in Writer THEN messages[p] + 1 ELSE messages[p]
    BY DEF Moves, Returns
  <1>6. /\ pc[p] \in 1..Len(Script(p)) /\ Len(Script(p)) \in Nat /\ Len(Script(p)) <= 14
        /\ CallFacts(p, pc[p])
    BY <1>1, InACall DEF Alive, Typed
  <1>7. /\ \A q \in Process \ {p} : pc'[q] = pc[q]
        /\ pc'[p] = pc[p] \/ pc'[p] = pc[p] + 1
        /\ pc' \in [Process -> 1..15]
    <2>1. pc[p] + 1 \in 1..15
      BY SMTT(30), <1>6
    <2> QED
      BY <2>1, <1>3, <1>5
  <1>8. PipesTypeOK'
    BY <1>1, <1>2, <1>7, SameScripts DEF Alive, Typed, PipesTypeOK, Byte
  <1>9. InPlace'
    <2>1. ASSUME NEW q \in Process PROVE pc'[q] <= Len(Script(q)) + 1
      BY SMTT(30), <1>3, <1>6, <1>7 DEF Alive, Typed, InPlace
    <2> QED
      BY <2>1, <1>1, SameScripts DEF InPlace
  <1>10. InTurn'
    <2>1. ASSUME NEW q \in Process PROVE messages'[q] <= Turn(q, pc'[q])
      <3>1. messages[q] <= Turn(q, pc[q]) /\ messages[q] \in Nat /\ pc[q] \in Nat
        BY <1>3 DEF Alive, Typed, InTurn
      <3>2. Turn(q, pc[q]) \in Nat /\ Turn(q, pc[q] + 1) \in Nat /\ Turn(q, pc[q]) <= Turn(q, pc[q] + 1)
        BY <3>1, <1>3, Turning
      <3>3. CASE q # p
        BY <3>1, <3>3, <1>4, <1>7
      <3>4. CASE q = p
        <4>1. Call(p).op \in Writer => Turn(p, pc[p] + 1) = Turn(p, pc[p]) + 1
          BY <3>1, <3>4, <1>3, <1>6, Turning DEF Call
        <4>2. CASE pc' = pc /\ messages'[p] = messages[p]
          BY <4>2, <3>1, <3>4
        <4>3. CASE /\ pc' = [pc EXCEPT ![p] = pc[p] + 1]
                   /\ messages'[p] = IF Call(p).op \in Writer THEN messages[p] + 1 ELSE messages[p]
          <5>1. pc'[p] = pc[p] + 1
            BY <4>3, <1>3
          <5> QED
            BY <4>1, <4>3, <5>1, <3>1, <3>2, <3>4
        <4> QED
          BY <4>2, <4>3, <1>5
      <3> QED
        BY <3>3, <3>4
    <2> QED
      BY <2>1, <1>1, SameScripts DEF InTurn
  <1>11. Partial'
    <2>1. ASSUME NEW q \in Process, done'[q] # 0
          PROVE  PartOf(q, done'[q]) /\ pc'[q] = pc[q]
      <3>1. CASE q # p
        BY <2>1, <3>1, <1>4, <1>7 DEF Alive, Typed, Partial
      <3>2. CASE q = p
        BY <2>1, <3>2, <1>5
      <3> QED
        BY <3>1, <3>2
    <2> QED
      BY <2>1, <1>1, SameScripts DEF Partial, PartOf, Call, Has, Running, Atomic
  <1>12. Unborn'
    BY <1>1, <1>4, <1>7 DEF Alive, Typed, Unborn
  <1>13. Holding'
    <2>1. ASSUME NEW q \in Process PROVE
            IF life[q] = "run" THEN IF Strangers THEN held[q] \subseteq Side(q) ELSE held[q] = Owned(q, pc'[q])
            ELSE held[q] = {}
      <3>1. ~Strangers => Owned(p, pc[p] + 1) = Owned(p, pc[p])
        BY <1>1, <1>6 DEF CallFacts, Call, Writer, Reader, Family
      <3> QED
        BY <3>1, <1>7 DEF Alive, Holding, Running
    <2> QED
      BY <2>1, <1>1, SameScripts DEF Holding, Running
  <1>14. Births'
    <2>1. ASSUME NEW q \in Process \ {1}, ~Strangers
          PROVE  /\ life[q] # "none" => pc'[1] > Birth(q)
                 /\ pc'[1] > Birth(q) /\ ~(program = "shell" /\ q \in {3, 5}) => life[q] # "none"
      <3>1. Birth(q) \in Nat
        BY DEF Birth
      <3>2. p = 1 => Birth(q) # pc[1]
        BY <2>1, <1>1, <1>6 DEF CallFacts, Call, Writer, Reader, Family
      <3> QED
        BY <2>1, <3>1, <3>2, <1>3, <1>7 DEF Alive, Births, Process
    <2> QED
      BY <2>1, <1>1, SameScripts DEF Births, Alive, Users
  <1>15. Deaths'
    <2>1. ASSUME NEW q \in Process, life[q] # "run" PROVE pc'[q] = pc[q]
      BY <2>1, <1>1, <1>7
    <2> QED
      BY <2>1, <1>1, SameScripts DEF Alive, Deaths, Call, Dead
  <1> QED
    BY <1>8, <1>9, <1>10, <1>11, <1>12, <1>13, <1>14, <1>15 DEF Alive, Typed

(* write(), and the write() of what was read.                              *)
LEMMA Writing ==
    ASSUME Alive, NEW p \in Process, Writes(p)
    PROVE  Moves(p)
  <1> DEFINE o == Call(p).op
             f == Call(p).pipe
             left == Call(p).n - done[p]
             room == PIPESIZE - Len(content[f])
  <1>1. /\ o \in Writer /\ At(p, o) /\ Has(p, "w")
        /\ UNCHANGED <<choice, fifos, life, reaped, held, got>>
    BY DEF Writes, Writer, At
  <1>2. PICK b \in {left, room} :
            /\ b <= left /\ b <= room
            /\ b = left \/ (b > 0 /\ ~Atomic(Call(p).n))
            /\ content' = [content EXCEPT ![f] = @ \o Bytes(Written(p), b)]
            /\ done' = [done EXCEPT ![p] = IF b = left THEN 0 ELSE @ + b]
            /\ messages' = [messages EXCEPT ![p] = IF b = left THEN @ + 1 ELSE @]
            /\ IF b = left THEN Returns(p) ELSE UNCHANGED pc
    BY DEF Writes
  <1>3. Running(p) /\ pc[p] \in Nat /\ pc[p] <= Len(Script(p)) /\ CallFacts(p, pc[p]) /\ size \in Nat
    BY <1>1, Placed
  <1>4. f \in Pipe /\ Call(p).n \in Nat /\ (o = "reply" => Call(p).n = 1)
    BY <1>1, <1>3 DEF CallFacts, Call
  <1>5. /\ content \in [Pipe -> Seq(Byte)] /\ got \in [Process -> Seq(Byte)] /\ done \in [Process -> Nat]
        /\ messages \in [Process -> 0..3] /\ program \in Programs
    BY DEF Alive, Typed, PipesTypeOK, Byte
  <1>6. messages[p] + 1 \in 0..3
    <2>1. messages[p] <= Turn(p, pc[p]) /\ messages[p] \in Nat
      <3>1. messages[p] \in 0..3
        BY <1>5
      <3> QED
        BY <3>1 DEF Alive, Typed, InTurn
    <2>2. Turn(p, pc[p]) \in Nat /\ Turn(p, pc[p] + 1) <= 3
      BY <1>3, <1>5, Turning
    <2>3. Turn(p, pc[p] + 1) = Turn(p, pc[p]) + 1
      <3>1. pc[p] \in 1..Len(Script(p))
        BY <1>3, InACall DEF Alive, Typed
      <3> QED
        BY <3>1, <1>1, <1>3, <1>5, Turning DEF Call
    <2> QED
      BY <2>1, <2>2, <2>3
  <1>7. Written(p) \in Byte
    <2>1. <<p, messages[p] + 1>> \in Byte /\ Garbage \in Byte
      BY <1>6 DEF Byte, Garbage, Process
    <2>2. got[p] # <<>> => got[p][1] \in Byte
      BY <1>5, SeqDef
    <2> QED
      BY <2>1, <2>2 DEF Written
  <1>8. room \in Int /\ left \in Int /\ b \in Int
    <2>1. Len(content[f]) \in Nat
      BY <1>4, <1>5, LenProperties
    <2> QED
      BY <2>1, <1>4, <1>5, PipeSizeAssumption
  <1>9. content' \in [Pipe -> Seq(Byte)]
    <2>1. Bytes(Written(p), b) \in Seq(Byte)
      BY <1>7, <1>8 DEF Bytes
    <2>2. content[f] \o Bytes(Written(p), b) \in Seq(Byte)
      BY <2>1, <1>4, <1>5, ConcatProperties
    <2> QED
      BY <2>2, <1>2, <1>4, <1>5
  <1> HIDE DEF left, room, f
  <1>10. messages' \in [Process -> 0..3] /\ \A q \in Process \ {p} : messages'[q] = messages[q]
    BY <1>2, <1>5, <1>6
  <1>11. \A q \in Process \ {p} : done'[q] = done[q]
    BY <1>2, <1>5
  <1>12. CASE b = left
    <2>1. done' = [done EXCEPT ![p] = 0] /\ messages'[p] = messages[p] + 1 /\ Returns(p)
      BY <1>2, <1>5, <1>12
    <2> QED
      BY <1>1, <1>3, <1>5, <1>9, <1>10, <1>11, <2>1 DEF Moves
  <1>13. CASE b # left
    <2>1. done' = [done EXCEPT ![p] = done[p] + b] /\ messages'[p] = messages[p] /\ pc' = pc
          /\ b > 0 /\ b < left /\ ~Atomic(Call(p).n)
      BY <1>2, <1>5, <1>8, <1>13
    <2>2. done' \in [Process -> Nat] /\ done'[p] < Call(p).n
      BY <2>1, <1>4, <1>5, <1>8 DEF left
    <2>3. o = "write"
      BY <2>1, <1>1, <1>4, PipeSizeAssumption DEF Writer, Atomic
    <2>4. PartOf(p, done'[p])
      BY <2>1, <2>2, <2>3, <1>1, <1>3 DEF PartOf
    <2> QED
      BY <1>1, <1>3, <1>5, <1>9, <1>10, <1>11, <2>1, <2>2, <2>4 DEF Moves
  <1> QED
    BY <1>12, <1>13

(* read().                                                                 *)
LEMMA ReadingBytes ==
    ASSUME Alive, NEW p \in Process, Reads(p)
    PROVE  Moves(p)
  <1> DEFINE f == Call(p).pipe
             b == IF Len(Content(p)) < Call(p).n THEN Len(Content(p)) ELSE Call(p).n
  <1>1. /\ Call(p).op \in Reader /\ At(p, Call(p).op)
        /\ UNCHANGED <<choice, fifos, life, reaped, held, done, messages>>
    BY DEF Reads, Reading, Reader, At
  <1>2. /\ got' = [got EXCEPT ![p] = @ \o SubSeq(Content(p), 1, b)]
        /\ content' = [content EXCEPT ![f] = SubSeq(@, b + 1, Len(@))]
        /\ IF Call(p).op = "read" THEN Returns(p) ELSE UNCHANGED pc
    BY DEF Reads
  <1>3. Running(p) /\ pc[p] <= Len(Script(p)) /\ CallFacts(p, pc[p])
    BY <1>1, Placed
  <1>4. f \in Pipe /\ Call(p).n \in Nat \ {0} /\ Call(p).op # "write"
    BY <1>1, <1>3 DEF CallFacts, Call, Reader
  <1>5. /\ content \in [Pipe -> Seq(Byte)] /\ got \in [Process -> Seq(Byte)] /\ done \in [Process -> Nat]
        /\ messages \in [Process -> 0..3]
    BY DEF Alive, Typed, PipesTypeOK, Byte
  <1>6. Content(p) \in Seq(Byte) /\ Content(p) = content[f] /\ Len(Content(p)) \in Nat
    BY <1>4, <1>5, LenProperties DEF Content
  <1>7. SubSeq(Content(p), 1, b) \in Seq(Byte) /\ SubSeq(content[f], b + 1, Len(content[f])) \in Seq(Byte)
    BY <1>4, <1>6, SubSeqProperties
  <1> HIDE DEF b, f
  <1>8. content' \in [Pipe -> Seq(Byte)]
    BY <1>2, <1>4, <1>5, <1>7
  <1>9. got[p] \o SubSeq(Content(p), 1, b) \in Seq(Byte)
    BY <1>5, <1>7, ConcatProperties
  <1>10. got' \in [Process -> Seq(Byte)] /\ \A q \in Process \ {p} : got'[q] = got[q]
    BY <1>2, <1>5, <1>9
  <1>11. done[p] = 0
    BY <1>4 DEF Alive, Typed, Partial, PartOf
  <1>12. CASE Call(p).op = "read"
    <2>1. Returns(p) /\ done'[p] = 0 /\ messages'[p] = messages[p] /\ Call(p).op \notin Writer
      BY <1>1, <1>2, <1>11, <1>12 DEF Writer
    <2> QED
      BY <1>1, <1>3, <1>5, <1>8, <1>10, <2>1 DEF Moves
  <1>13. CASE Call(p).op # "read"
    BY <1>1, <1>2, <1>3, <1>5, <1>8, <1>10, <1>11, <1>13 DEF Moves
  <1> QED
    BY <1>12, <1>13

(* open() of a FIFO: it may let others go on who wait for the other end.   *)
LEMMA OpeningFifo ==
    ASSUME Alive, NEW p \in Process, Opens(p) PROVE Alive'
  <1> DEFINE f == Call(p).pipe
             e == Call(p).end
             On == IF Holders(f, Other(e)) = {} THEN {} ELSE {p} \cup Opening(f, Other(e))
  <1>1. At(p, "open") /\ UNCHANGED <<choice, fifos, life, reaped, done, messages, got>>
    BY DEF Opens
  <1>2. Running(p) /\ Call(p).op = "open" /\ CallFacts(p, pc[p])
    BY <1>1, Placed
  <1>3. Strangers /\ <<f, e>> \in Side(p)
    BY <1>2 DEF CallFacts, Call
  <1>4. /\ life[p] = "run" /\ program \in Programs /\ pc \in [Process -> 1..15]
        /\ held \in [Process -> SUBSET Ends] /\ content \in [Pipe -> Seq(Byte)]
        /\ messages \in [Process -> 0..3]
    BY <1>2 DEF Alive, Typed, PipesTypeOK, Running, Byte
  <1>5. /\ held' = [held EXCEPT ![p] = @ \cup {<<f, e>>}]
        /\ content' = IF Holders(f, "r") \cup Holders(f, "w") = {}
                      THEN [content EXCEPT ![f] = <<>>] ELSE content
        /\ pc' = [q \in Process |-> IF q \in On THEN pc[q] + 1 ELSE pc[q]]
    BY <1>4 DEF Opens
  <1>6. \A q \in On : q \in Process /\ At(q, "open")
    BY <1>1 DEF Opening
  <1>7. \A q \in On : /\ life[q] = "run" /\ done[q] = 0 /\ pc[q] \in Nat /\ pc[q] <= Len(Script(q))
                      /\ q \in Process
    BY <1>6, Placed DEF Running
  <1> HIDE DEF On, f, e
  <1>8. \A q \in Process : q \notin On => pc'[q] = pc[q]
    BY <1>5
  <1>9. \A q \in On : pc'[q] = pc[q] + 1
    BY <1>5, <1>7
  <1>10. Side(p) \subseteq Ends /\ <<f, e>> \in Ends
    BY <1>3 DEF Side, Ends, Pipe
  <1>11. PipesTypeOK'
    <2>1. pc' \in [Process -> 1..15]
      <3>1. ASSUME NEW q \in On PROVE pc[q] + 1 \in 1..15
        <4>1. Len(Script(q)) \in Nat /\ Len(Script(q)) <= 14
          BY <1>4, <1>7, ScriptLengths
        <4> QED
          BY SMTT(30), <4>1, <1>7
      <3> QED
        BY <3>1, <1>4, <1>5
    <2>2. held' \in [Process -> SUBSET Ends]
      BY <1>4, <1>5, <1>10
    <2>3. content' \in [Pipe -> Seq(Byte)]
      <3>1. <<>> \in Seq(Byte)
        OBVIOUS
      <3> QED
        BY <3>1, <1>4, <1>5
    <2> QED
      BY <1>1, <2>1, <2>2, <2>3, SameScripts DEF Alive, Typed, PipesTypeOK, Byte
  <1>12. InPlace'
    <2>1. ASSUME NEW q \in Process PROVE pc'[q] <= Len(Script(q)) + 1
      <3>1. Len(Script(q)) \in Nat
        BY <1>4, ScriptLengths
      <3> QED
        BY <3>1, <1>7, <1>8, <1>9 DEF Alive, Typed, InPlace
    <2> QED
      BY <2>1, <1>1, SameScripts DEF InPlace
  <1>13. InTurn'
    <2>1. ASSUME NEW q \in Process PROVE messages[q] <= Turn(q, pc'[q])
      <3>1. messages[q] \in 0..3 /\ pc[q] \in 1..15
        BY <1>4
      <3>2. messages[q] <= Turn(q, pc[q]) /\ messages[q] \in Nat /\ pc[q] \in Nat
        BY <3>1 DEF Alive, Typed, InTurn
      <3>3. Turn(q, pc[q]) \in Nat /\ Turn(q, pc[q] + 1) \in Nat /\ Turn(q, pc[q]) <= Turn(q, pc[q] + 1)
        BY <3>2, <1>4, Turning
      <3> QED
        BY <3>2, <3>3, <1>8, <1>9
    <2> QED
      BY <2>1, <1>1, SameScripts DEF InTurn
  <1>14. \A q \in Process : held[q] \subseteq held'[q]
    BY <1>4, <1>5
  <1>15. Partial'
    <2>1. ASSUME NEW q \in Process, done[q] # 0 PROVE PartOf(q, done[q]) /\ pc'[q] = pc[q]
      BY <2>1, <1>7, <1>8 DEF Alive, Typed, Partial
    <2>2. ASSUME NEW q \in Process, Has(q, "w") PROVE <<Call(q).pipe, "w">> \in held'[q]
      BY <2>2, <1>14 DEF Has
    <2> QED
      BY <2>1, <2>2, <1>1, SameScripts DEF Partial, PartOf, Call, Has, Running, Atomic
  <1>16. Unborn'
    <2>1. ASSUME NEW q \in Process, life[q] = "none" PROVE pc'[q] = pc[q]
      BY <2>1, <1>7, <1>8
    <2> QED
      BY <2>1, <1>1 DEF Alive, Typed, Unborn
  <1>17. Holding'
    <2>1. ASSUME NEW q \in Process
          PROVE  IF life[q] = "run" THEN held'[q] \subseteq Side(q) ELSE held'[q] = {}
      <3>1. IF life[q] = "run" THEN held[q] \subseteq Side(q) ELSE held[q] = {}
        BY <1>3 DEF Alive, Holding, Running
      <3> QED
        BY <3>1, <1>3, <1>4, <1>5
    <2> QED
      BY <2>1, <1>1, <1>3, SameScripts DEF Holding, Running
  <1>18. Births'
    BY <1>1, <1>3, SameScripts DEF Births, Alive, Users
  <1>19. Deaths'
    <2>1. ASSUME NEW q \in Process, life[q] # "run" PROVE pc'[q] = pc[q]
      BY <2>1, <1>7, <1>8
    <2> QED
      BY <2>1, <1>1, SameScripts DEF Alive, Deaths, Call, Dead
  <1> QED
    BY <1>11, <1>12, <1>13, <1>15, <1>16, <1>17, <1>18, <1>19 DEF Alive, Typed

(* What is known of the processes and of the ends they hold is kept.       *)
LEMMA AliveStep == Alive /\ [PipesNext]_pipesVars => Alive'
  <1> SUFFICES ASSUME Alive, [PipesNext]_pipesVars PROVE Alive'
    OBVIOUS
  <1>1. CASE UNCHANGED pipesVars
    <2>1. /\ choice' = choice /\ fifos' = fifos /\ pc' = pc /\ life' = life /\ reaped' = reaped
          /\ held' = held /\ content' = content /\ done' = done /\ messages' = messages /\ got' = got
      BY <1>1 DEF pipesVars, flow
    <2>2. Typed'
      BY <2>1, SameScripts DEF Alive, Typed, PipesTypeOK, InPlace, InTurn, Partial, PartOf, Call, Has,
                               Running, Atomic, Unborn
    <2>3. Holding' /\ Births' /\ Deaths'
      BY <2>1, SameScripts DEF Alive, Holding, Births, Deaths, Running, Call, Users
    <2> QED
      BY <2>2, <2>3 DEF Alive
  <1>2. ASSUME NEW p \in Process, Start(p) \/ Kill(p) \/ Step(p) PROVE Alive'
    BY <1>2, Starting, Ending, MakingPipe, Forking, FailingFork, ClosingEnd, Waiting, Breaking,
       GoingOn, Writing, ReadingBytes, Moving, OpeningFifo DEF Step
  <1> QED
    BY <1>1, <1>2 DEF PipesNext

(* Types, and what the relatives and strangers of src/Pipe hold at each    *)
(* place of their scripts.                                                 *)
THEOREM PipesTyped == PipesSpec => []Alive
  BY Beginning, AliveStep, PTL DEF PipesSpec

-----------------------------------------------------------------------------
(***************************************************************************)
(* What comes out of a pipe, until the theorem Delivered.                  *)
(***************************************************************************)
(* Pipe1.c, Pipe2.c: what was read and what is in the pipe are the messages*)
(* so far, in order; each read() returns one, unless somebody was killed.  *)
Author == IF program = "Pipe1" THEN 1 ELSE 2
Number(a) == IF a <= MSGSIZE THEN 1 ELSE IF a <= 2 * MSGSIZE THEN 2 ELSE 3
ReadsBefore(x) == LET first == IF program = "Pipe1" THEN 5 ELSE 4
                  IN IF x <= first THEN 0 ELSE IF x <= first + 3 THEN x - first ELSE 3
InOrder == program \in {"Pipe1", "Pipe2"} =>
    LET all == got[1] \o content[1] IN
    /\ Len(all) = MSGSIZE * messages[Author]
    /\ \A a \in 1..Len(all) : all[a] = <<Author, Number(a)>>
    /\ messages[Author] = Turn(Author, pc[Author])
    /\ \E b \in 0..3 : Len(got[1]) = b * MSGSIZE
    /\ ~Killed => Len(got[1]) = MSGSIZE * ReadsBefore(pc[1])

(* Pipe3.c, Pipe4.c, Pipe5.c, PipeWriteBlock.c: one process listens to     *)
(* another; once it is through, the pipe is empty and cannot be written to,*)
(* or, where nobody closes it, everything has been read.                   *)
Ear == IF program = "Pipe4" THEN 1 ELSE 2
EarPlace == IF program = "Pipe4" THEN 4 ELSE IF program = "block" THEN 1 ELSE 2
Drained == program \in {"Pipe3", "Pipe4", "Pipe5", "block"} =>
    /\ \A p \in Process : got[p] # <<>> => p = Ear /\ pc[p] >= EarPlace
    /\ program # "block" /\ pc[Ear] > EarPlace => content[1] = <<>> /\ Holders(1, "w") = {}
    /\ program = "block" => Len(got[2]) + Len(content[1]) = IF messages[1] = 0 THEN done[1] ELSE size
    /\ program = "block" /\ pc[2] > 1 => Len(got[2]) >= size

(* Pipe2.c waits for its child; FakeShell.c for the reader of the first    *)
(* command, or, without one, for the command.                              *)
Waited == program = "Pipe2" /\ pc[1] > 7 => life[2] # "run"
Foreground == program = "shell" /\ ~background /\ pc[1] > 6 =>
    life[3] \in Dead \/ (life[3] = "none" /\ life[2] # "run")

(* The FIFO a stranger writes to, where it opens it, and who reads it.  Who*)
(* has opened it has met somebody who reads it, or did.                    *)
Line(q) == IF q \in Server THEN 2 ELSE 1
Door(q) == IF q \in Server THEN 4 ELSE 1
Peers(q) == IF q \in Server THEN Client ELSE Server
Met == Strangers =>
    /\ \A q \in Process : \A h \in held[q] : h[1] \in fifos
    /\ \A q \in Server \cup Client : pc[q] > Door(q) /\ <<Line(q), "w">> \in held[q] =>
           \E o \in Peers(q) : <<Line(q), "r">> \in held[o] \/ life[o] \in Dead

(* PipeServer2.c, PipeClient2.c: only words that were said go to a server; *)
(* a client may get what was in its buffer instead.                        *)
Said == {<<c, 1>> : c \in {q \in Client : messages[q] = 1}}
Answers == program = "full" =>
    /\ content[1] \in Seq(Said) /\ content[2] \in Seq(Said \cup {Garbage})
    /\ \A q \in Server : got[q] \in Seq(Said)
    /\ \A q \in Client : got[q] \in Seq(Said \cup {Garbage})
Ready == program = "full" => \A q \in Server :
    /\ pc[q] > 1 => 1 \in fifos
    /\ pc[q] > 3 /\ Running(q) => <<1, "r">> \in held[q]

(* A client that is alone with a server: the server does not come past its *)
(* open() without the client, nor past its read() without a word, and the  *)
(* client gets this word, and once.                                        *)
Gone(c) == life[c] \in Dead
Alone(c) == (\A q \in Client \ {c} : life[q] = "none") /\ \E q \in Server : life[q] = "none"
Meeting(c) == \A q \in Server : pc[q] > 3 => <<1, "w">> \in held[c] \/ Gone(c)
Hearing(c) == \A q \in Server : pc[q] > 5 => got[q] # <<>> \/ Gone(c)
Answered(c) == /\ got[c] \in Seq({<<c, 1>>}) /\ Len(got[c]) <= 1
               /\ ~Gone(c) => /\ content[2] \in Seq({<<c, 1>>})
                              /\ \A q \in Server : life[q] = "none" =>
                                     Len(content[2]) + Len(got[c]) <= messages[5 - q]
Dialogue == program = "full" =>
    \A c \in Client : Alone(c) => Meeting(c) /\ Hearing(c) /\ Answered(c)

(* What a step may do to any process.                                      *)
LEMMA Lives ==
    ASSUME Alive, [PipesNext]_pipesVars, NEW q \in Process
    PROVE  /\ \/ life'[q] = life[q]
              \/ /\ life[q] = "none" /\ life'[q] = "run"
                 /\ Family /\ q # 1 => pc[1] = Birth(q)
              \/ life[q] = "run" /\ life'[q] \in Dead
           /\ pc'[q] # pc[q] => /\ life[q] = "run" /\ life'[q] = "run" /\ pc'[q] = pc[q] + 1
                                /\ Family => Step(q)
           /\ choice' = choice
  <1>1. /\ life \in [Process -> {"none", "run", "exited", "killed", "SIGPIPE"}]
        /\ pc \in [Process -> 1..15]
    BY DEF Alive, Typed, PipesTypeOK
  <1>2. CASE UNCHANGED pipesVars
    BY <1>2 DEF pipesVars
  <1>3. ASSUME NEW p \in Process, Start(p) PROVE life' = [life EXCEPT ![p] = "run"] /\ life[p] = "none"
                                                 /\ pc' = pc /\ choice' = choice /\ p \in Users
    BY <1>3 DEF Start
  <1>4. ASSUME NEW p \in Process, Exit(p) \/ Kill(p)
        PROVE  \E how \in Dead : life' = [life EXCEPT ![p] = how] /\ Running(p) /\ pc' = pc /\ choice' = choice
    BY <1>4 DEF Exit, Kill, Dies, Dead
  <1>5. ASSUME NEW p \in Process, MakesPipe(p) \/ Closes(p) \/ WaitsAny(p) \/ WaitsFor(p) \/ GoesOn(p)
                                  \/ Reaps(p) \/ EndOfFile(p) \/ BadDescriptor(p) \/ MakesFifo(p)
                                  \/ OpenFails(p)
        PROVE  life' = life /\ Running(p) /\ Returns(p) /\ choice' = choice
    BY <1>5 DEF MakesPipe, Closes, WaitsAny, WaitsFor, GoesOn, Reaps, EndOfFile, BadDescriptor,
                MakesFifo, OpenFails, At, Reading
  <1>6. ASSUME NEW p \in Process, Writes(p) \/ Reads(p)
        PROVE  life' = life /\ Running(p) /\ (Returns(p) \/ pc' = pc) /\ choice' = choice
    BY <1>6 DEF Writes, Reads, At, Reading
  <1>7. ASSUME NEW p \in Process, BreaksPipe(p) \/ ForkFails(p)
        PROVE  /\ Running(p) /\ choice' = choice
               /\ \/ life' = life /\ Returns(p)
                  \/ pc' = pc /\ \E how \in Dead : life' = [life EXCEPT ![p] = how]
    BY <1>7 DEF BreaksPipe, ForkFails, At, Dies, Dead
  <1>8. ASSUME NEW p \in Process, Forks(p)
        PROVE  /\ Running(p) /\ Returns(p) /\ choice' = choice
               /\ \E c \in Process \ {1} : /\ life' = [life EXCEPT ![c] = "run"] /\ life[c] = "none"
                                           /\ Birth(c) = pc[1] /\ p = 1
    <2>1. Call(p).op = "fork" /\ CallFacts(p, pc[p]) /\ Running(p)
      BY <1>8, Placed DEF Forks
    <2>2. /\ Family /\ p = 1 /\ Call(p).child \in Process \ {1} /\ Birth(Call(p).child) = pc[1]
      BY <2>1 DEF CallFacts, Call
    <2>3. ASSUME NEW c \in Process \ {1}, Birth(c) = pc[1], Family PROVE life[c] = "none"
      <3>1. pc[1] \in 1..15
        BY <1>1 DEF Process
      <3> QED
        BY <3>1, <2>3 DEF Alive, Births, Family
    <2> QED
      BY <1>8, <2>1, <2>2, <2>3 DEF Forks
  <1>9. ASSUME NEW p \in Process, Opens(p)
        PROVE  /\ life' = life /\ choice' = choice /\ Strangers
               /\ pc'[q] = pc[q] \/ (Running(q) /\ pc'[q] = pc[q] + 1)
    <2>1. At(p, "open") /\ Strangers
      <3>1. At(p, "open")
        BY <1>9 DEF Opens
      <3>2. Call(p).op = "open" /\ CallFacts(p, pc[p])
        BY <3>1, Placed
      <3> QED
        BY <3>1, <3>2 DEF CallFacts, Call
    <2>2. \A f, e : q \in Opening(f, e) => Running(q)
      BY DEF Opening, At
    <2> QED
      BY <1>9, <2>1, <2>2 DEF Opens, At
  <1>10. ASSUME NEW p \in Process, Returns(p), Running(p)
         PROVE  /\ pc'[q] # pc[q] => q = p /\ life[q] = "run" /\ pc'[q] = pc[q] + 1
    BY <1>1, <1>10 DEF Returns, Running
  <1>11. ASSUME NEW p \in Process, Start(p) \/ Kill(p) \/ Exit(p)
         PROVE  /\ \/ life'[q] = life[q]
                   \/ /\ life[q] = "none" /\ life'[q] = "run"
                      /\ Family /\ q # 1 => pc[1] = Birth(q)
                   \/ life[q] = "run" /\ life'[q] \in Dead
                /\ pc' = pc /\ choice' = choice
    BY <1>1, <1>3, <1>4, <1>11 DEF Running, Users, Family
  <1>12. ASSUME NEW p \in Process, Step(p), ~Exit(p)
         PROVE  /\ \/ life'[q] = life[q]
                   \/ /\ life[q] = "none" /\ life'[q] = "run"
                      /\ Family /\ q # 1 => pc[1] = Birth(q)
                   \/ life[q] = "run" /\ life'[q] \in Dead
                /\ pc'[q] # pc[q] => /\ life[q] = "run" /\ life'[q] = "run" /\ pc'[q] = pc[q] + 1
                                     /\ Family => Step(q)
                /\ choice' = choice
    <2>1. CASE Opens(p)
      BY <1>9, <2>1 DEF Running, Family
    <2>2. CASE Forks(p)
      BY <1>1, <1>8, <1>10, <1>12, <2>2
    <2>3. CASE BreaksPipe(p) \/ ForkFails(p)
      BY <1>1, <1>7, <1>10, <1>12, <2>3 DEF Running
    <2>4. CASE Writes(p) \/ Reads(p)
      BY <1>6, <1>10, <1>12, <2>4
    <2>5. CASE MakesPipe(p) \/ Closes(p) \/ WaitsAny(p) \/ WaitsFor(p) \/ GoesOn(p)
               \/ Reaps(p) \/ EndOfFile(p) \/ BadDescriptor(p) \/ MakesFifo(p) \/ OpenFails(p)
      BY <1>5, <1>10, <1>12, <2>5
    <2> QED
      BY <1>12, <2>1, <2>2, <2>3, <2>4, <2>5 DEF Step
  <1> QED
    BY <1>2, <1>11, <1>12 DEF PipesNext, Step

(* Only the calls that wait return from a wait.                            *)
LEMMA OnlyWaits ==
    ASSUME NEW p \in Process, Step(p), pc'[p] # pc[p]
    PROVE  /\ Call(p).op = "wait" => WaitsAny(p)
           /\ Call(p).op = "waitfor" => WaitsAny(p) \/ WaitsFor(p) \/ GoesOn(p)
  <1>1. ~Exit(p)
    BY DEF Exit
  <1> QED
    BY <1>1 DEF Step, MakesPipe, Forks, ForkFails, Closes, Reaps, WaitsAny, WaitsFor, GoesOn, Writes,
           BreaksPipe, Reads, EndOfFile, BadDescriptor, MakesFifo, OpenFails, Opens, At, Reading

(* The parent of Pipe2.c waits for its child.                              *)
LEMMA WaitedStep ==
    ASSUME Alive, Waited, [PipesNext]_pipesVars PROVE Waited'
  <1>1. choice' = choice
    BY Lives DEF Process
  <1> SUFFICES ASSUME program = "Pipe2", pc'[1] > 7 PROVE life'[2] # "run"
    BY <1>1, SameScripts DEF Waited
  <1>2. Family
    BY DEF Family, Strangers
  <1>3. pc[1] \in 1..15 /\ reaped \subseteq Process
    BY DEF Alive, Typed, PipesTypeOK, Process
  <1>4. pc'[1] = pc[1] \/ (pc'[1] = pc[1] + 1 /\ Step(1))
    BY <1>2, Lives DEF Process
  <1>5. life[2] # "none"
    <2>1. pc[1] > 2 /\ Birth(2) = 2
      BY <1>3, <1>4 DEF Birth
    <2> QED
      BY <2>1, <1>2 DEF Alive, Births, Process, Family
  <1>6. life[2] # "run"
    <2>1. CASE pc[1] > 7
      BY <2>1 DEF Waited
    <2>2. CASE ~(pc[1] > 7)
      <3>1. pc[1] = 7 /\ pc'[1] = 8 /\ Step(1)
        BY <1>3, <1>4, <2>2
      <3>2. Call(1).op = "wait"
        BY <3>1 DEF Call, Script, Pipe2Parent, Wait
      <3>3. WaitsAny(1)
        BY <3>1, <3>2, OnlyWaits DEF Process
      <3>4. Children(1) = {c \in Process : life[c] # "none"} \ (reaped \cup {1})
        BY <1>2 DEF Children, Family
      <3>5. ASSUME NEW c \in Process \ {1}, c # 2 PROVE life[c] = "none"
        <4>1. Birth(c) = 16
          BY <3>5 DEF Birth
        <4> QED
          BY <3>5, <4>1, <1>2, <1>3 DEF Alive, Births, Family
      <3>6. CASE 2 \in reaped
        BY <3>6 DEF Alive, Deaths, Dead
      <3>7. CASE 2 \notin reaped
        <4>1. Children(1) = {2}
          BY <3>4, <3>5, <3>7, <1>5 DEF Process
        <4>2. 2 \in Zombies
          BY <3>3, <4>1 DEF WaitsAny
        <4> QED
          BY <4>2 DEF Zombies
      <3> QED
        BY <3>6, <3>7
    <2> QED
      BY <2>1, <2>2
  <1> QED
    BY <1>5, <1>6, Lives DEF Process, Dead

(* The shell waits for the reader of the first command, or, without one,   *)
(* for the command.                                                        *)
LEMMA ForegroundStep ==
    ASSUME Alive, Foreground, [PipesNext]_pipesVars PROVE Foreground'
  <1>1. choice' = choice
    BY Lives DEF Process
  <1> SUFFICES ASSUME program = "shell", ~background, pc'[1] > 6
               PROVE  life'[3] \in Dead \/ (life'[3] = "none" /\ life'[2] # "run")
    BY <1>1, SameScripts DEF Foreground, Dead
  <1>2. Family
    BY DEF Family, Strangers
  <1>3. pc[1] \in 1..15 /\ reaped \subseteq Process
    BY DEF Alive, Typed, PipesTypeOK, Process
  <1>4. pc'[1] = pc[1] \/ (pc'[1] = pc[1] + 1 /\ Step(1))
    BY <1>2, Lives DEF Process
  <1>5. pc[1] > 5 /\ Birth(2) = 2 /\ Birth(3) = 4 /\ Birth(4) = 9 /\ Birth(5) = 11
    BY <1>3, <1>4 DEF Birth
  <1>6. life[2] # "none"
    BY <1>5, <1>2, <1>3 DEF Alive, Births, Process, Family
  <1>7. life[3] \in Dead \/ (life[3] = "none" /\ life[2] # "run")
    <2>1. CASE pc[1] > 6
      BY <2>1 DEF Foreground
    <2>2. CASE ~(pc[1] > 6)
      <3>1. pc[1] = 6 /\ pc'[1] = 7 /\ Step(1)
        BY <1>3, <1>4, <1>5, <2>2
      <3>2. Call(1).op = "waitfor" /\ Call(1).child = 3
        BY <3>1 DEF Call, Script, ShellLoop, WaitFor
      <3>3. WaitsAny(1) \/ WaitsFor(1)
        BY <3>1, <3>2, OnlyWaits DEF Process, GoesOn
      <3>4. Children(1) = {c \in Process : life[c] # "none"} \ (reaped \cup {1})
        BY <1>2 DEF Children, Family
      <3>5. life[4] = "none" /\ life[5] = "none"
        BY <3>1, <1>2, <1>5 DEF Alive, Births, Family, Process
      <3>6. CASE WaitsFor(1)
        BY <3>2, <3>6 DEF WaitsFor, Zombies, Dead
      <3>7. CASE WaitsAny(1)
        <4>1. life[3] = "none"
          BY <3>2, <3>7 DEF WaitsAny, At
        <4>2. CASE 2 \in reaped
          BY <4>1, <4>2 DEF Alive, Deaths, Dead
        <4>3. CASE 2 \notin reaped
          <5>1. Children(1) = {2}
            BY <3>4, <3>5, <4>1, <4>3, <1>6 DEF Process
          <5>2. 2 \in Zombies
            BY <3>7, <5>1 DEF WaitsAny
          <5> QED
            BY <4>1, <5>2 DEF Zombies
        <4> QED
          BY <4>2, <4>3
      <3> QED
        BY <3>3, <3>6, <3>7
    <2> QED
      BY <2>1, <2>2
  <1>8. \/ life'[3] = life[3] \/ (life[3] = "none" /\ life'[3] = "run" /\ pc[1] = Birth(3))
        \/ life[3] = "run" /\ life'[3] \in Dead
    BY <1>2, Lives DEF Process
  <1>9. \/ life'[2] = life[2] \/ life[2] = "none" \/ (life[2] = "run" /\ life'[2] \in Dead)
    BY Lives DEF Process
  <1> QED
    BY <1>5, <1>6, <1>7, <1>8, <1>9 DEF Dead

(* The programs in which one process listens to another until its end.     *)
Listening == program \in {"Pipe3", "Pipe4", "Pipe5", "block"}

(* Who reads what where in these programs, by enumeration.                 *)
LEMMA Ears ==
    ASSUME Listening, size \in Nat, NEW p \in Process, NEW x \in 1..Len(Script(p))
    PROVE  LET c == Script(p)[x] IN
           /\ c.op \in Reader => /\ p = Ear /\ x = EarPlace /\ c.pipe = 1
                                 /\ c.op = IF program = "block" THEN "readfor" ELSE "readtoend"
                                 /\ program = "block" => c.until = size
           /\ c.op \in Writer => /\ p \in {1, 2} /\ p # Ear /\ c.pipe = 1
                                 /\ program = "block" => c.n = size /\ x = 3
           /\ p = Ear /\ x = EarPlace => c.op \in Reader
  <1> USE PipeSizeAssumption DEF Listening, Ear, EarPlace, Reader, Writer, Process, Script,
          MakePipe, Fork, Close, Write, ReadFor, ReadToEnd, Wait
  <1>1. CASE program = "Pipe3"
    BY SMTT(30), <1>1 DEF Pipe3Parent, Pipe3Child
  <1>2. CASE program = "Pipe4"
    BY SMTT(30), <1>2 DEF Pipe4Parent, Pipe4Child
  <1>3. CASE program = "Pipe5"
    BY SMTT(30), <1>3 DEF Pipe5Parent, Pipe5Child
  <1>4. CASE program = "block"
    BY <1>4 DEF BlockParent, BlockChild
  <1> QED
    BY <1>1, <1>2, <1>3, <1>4

(* Bytes move by write() and read() alone.                                 *)
LEMMA Flowing ==
    ASSUME Alive, Family, [PipesNext]_pipesVars
    PROVE  flow' = flow \/ \E p \in Process : Writes(p) \/ Reads(p)
  <1>1. CASE UNCHANGED pipesVars
    BY <1>1 DEF pipesVars
  <1>2. ASSUME NEW p \in Process, Start(p) \/ Kill(p) \/ Step(p), ~Opens(p), ~Writes(p), ~Reads(p)
        PROVE  flow' = flow
    BY <1>2 DEF Start, Kill, Step, Exit, MakesPipe, Forks, ForkFails, Closes, Reaps, WaitsAny, WaitsFor,
                GoesOn, BreaksPipe, EndOfFile, BadDescriptor, MakesFifo, OpenFails
  <1>3. ASSUME NEW p \in Process, Opens(p) PROVE FALSE
    <2>1. At(p, "open")
      BY <1>3 DEF Opens
    <2>2. Call(p).op = "open" /\ CallFacts(p, pc[p])
      BY <2>1, Placed
    <2> QED
      BY <2>2 DEF CallFacts, Call, Family
  <1> QED
    BY <1>1, <1>2, <1>3 DEF PipesNext

(* An end of a pipe that nobody holds any more stays closed.               *)
LEMMA NoNewEnds ==
    ASSUME Alive, Family, program # "shell", [PipesNext]_pipesVars, pc[1] > 1,
           NEW e, Holders(1, e) = {}
    PROVE  Holders(1, e)' = {}
  <1>1. held \in [Process -> SUBSET Ends] /\ \A q \in Process : <<1, e>> \notin held[q]
    BY DEF Alive, Typed, PipesTypeOK, Holders
  <1> SUFFICES \A q \in Process : <<1, e>> \notin held'[q]
    BY DEF Holders
  <1>2. CASE UNCHANGED pipesVars
    BY <1>1, <1>2 DEF pipesVars
  <1>3. ASSUME NEW p \in Process, Start(p) \/ Kill(p) \/ Step(p) PROVE \A q \in Process : <<1, e>> \notin held'[q]
    <2>1. CASE MakesPipe(p)
      <3>1. p = 1 /\ Call(p).pipe \in Pipe /\ Call(p).op = "pipe" /\ pc[p] \in 1..Len(Script(p))
        <4>1. At(p, "pipe")
          BY <2>1 DEF MakesPipe
        <4>2. Call(p).op = "pipe" /\ CallFacts(p, pc[p]) /\ pc[p] <= Len(Script(p))
          BY <4>1, Placed
        <4> QED
          BY <4>2, InACall DEF CallFacts, Call, Alive, Typed
      <3>2. program \in {"Pipe1", "Pipe2", "Pipe3", "Pipe4", "Pipe5", "block"}
        BY ProgramAssumption DEF Alive, Typed, PipesTypeOK, Family, Strangers
      <3>3. pc[1] = 1
        BY <3>1, <3>2 DEF Call, Script, Pipe1, Pipe2Parent, Pipe3Parent, Pipe4Parent, Pipe5Parent,
           BlockParent, MakePipe, Fork, Close, Write, Read, ReadToEnd, Wait
      <3> QED
        BY <3>3
    <2>2. CASE Forks(p)
      BY <1>1, <2>2 DEF Forks
    <2>3. CASE Opens(p)
      <3>1. At(p, "open")
        BY <2>3 DEF Opens
      <3>2. Call(p).op = "open" /\ CallFacts(p, pc[p])
        BY <3>1, Placed
      <3> QED
        BY <3>2 DEF CallFacts, Call, Family
    <2>4. CASE Closes(p)
      BY <1>1, <2>4 DEF Closes
    <2>5. CASE \E how \in Dead : Dies(p, how)
      BY <1>1, <2>5 DEF Dies
    <2>6. CASE held' = held
      BY <1>1, <2>6
    <2> QED
      BY <1>3, <2>1, <2>2, <2>3, <2>4, <2>5, <2>6 DEF Start, Kill, Step, Exit, ForkFails, Reaps, WaitsAny,
         WaitsFor, GoesOn, Writes, BreaksPipe, Reads, EndOfFile, BadDescriptor, MakesFifo, OpenFails, Dead
  <1> QED
    BY <1>2, <1>3 DEF PipesNext

(* A write() makes its pipe longer, by what it takes off what is left.     *)
LEMMA WriteEffect ==
    ASSUME Alive, NEW p \in Process, Writes(p)
    PROVE  LET k1 == Call(p).pipe IN
           \E b \in Nat :
              /\ Len(content'[k1]) = Len(content[k1]) + b
              /\ content' = [content EXCEPT ![k1] = @ \o Bytes(Written(p), b)]
              /\ \/ /\ b = Call(p).n - done[p] /\ done' = [done EXCEPT ![p] = 0]
                    /\ messages' = [messages EXCEPT ![p] = @ + 1] /\ Returns(p)
                 \/ /\ ~Atomic(Call(p).n) /\ done' = [done EXCEPT ![p] = @ + b]
                    /\ messages' = messages /\ pc' = pc
              /\ got' = got /\ k1 \in Pipe /\ Call(p).n \in Nat /\ Has(p, "w") /\ Call(p).op \in Writer
              /\ Running(p) /\ pc[p] <= Len(Script(p))
  <1> DEFINE k1 == Call(p).pipe
             left == Call(p).n - done[p]
             room == PIPESIZE - Len(content[k1])
  <1>1. /\ Call(p).op \in Writer /\ At(p, Call(p).op) /\ Has(p, "w") /\ got' = got
    BY DEF Writes, Writer, At
  <1>2. PICK b \in {left, room} :
            /\ b <= left /\ b <= room
            /\ b = left \/ (b > 0 /\ ~Atomic(Call(p).n))
            /\ content' = [content EXCEPT ![k1] = @ \o Bytes(Written(p), b)]
            /\ done' = [done EXCEPT ![p] = IF b = left THEN 0 ELSE @ + b]
            /\ messages' = [messages EXCEPT ![p] = IF b = left THEN @ + 1 ELSE @]
            /\ IF b = left THEN Returns(p) ELSE UNCHANGED pc
    BY DEF Writes
  <1>3. Running(p) /\ pc[p] <= Len(Script(p)) /\ CallFacts(p, pc[p])
    BY <1>1, Placed
  <1>4. k1 \in Pipe /\ Call(p).n \in Nat
    BY <1>1, <1>3 DEF CallFacts, Call
  <1>5. /\ content \in [Pipe -> Seq(Byte)] /\ content' \in [Pipe -> Seq(Byte)] /\ done \in [Process -> Nat]
        /\ messages \in [Process -> 0..3]
    BY Writing DEF Alive, Typed, PipesTypeOK, Byte, Moves
  <1>6. left \in Nat
    <2>1. done[p] \in Nat
      BY <1>5
    <2>2. done[p] # 0 => done[p] < Call(p).n
      BY DEF Alive, Typed, Partial, PartOf
    <2> QED
      BY <2>1, <2>2, <1>4
  <1>7. Len(content[k1]) \in Nat
    BY <1>4, <1>5, LenProperties
  <1>8. b \in Nat
    BY <1>2, <1>6, <1>7, PipeSizeAssumption
  <1> HIDE DEF left, room, k1
  <1>9. content'[k1] = content[k1] \o Bytes(Written(p), b)
    BY <1>2, <1>4, <1>5
  <1>10. Len(content'[k1]) = Len(content[k1]) + b
    <2>1. Bytes(Written(p), b) \in Seq({Written(p)}) /\ Len(Bytes(Written(p), b)) = b
      BY <1>8 DEF Bytes
    <2>2. content[k1] \in Seq(Byte \cup {Written(p)}) /\ Bytes(Written(p), b) \in Seq(Byte \cup {Written(p)})
      BY <2>1, <1>4, <1>5
    <2> QED
      BY ZenonT(30), <2>1, <2>2, <1>9, ConcatProperties
  <1>11. CASE b = left
    BY <1>1, <1>2, <1>3, <1>4, <1>5, <1>8, <1>10, <1>11 DEF left, k1
  <1>12. CASE b # left
    <2>1. messages' = messages
      BY <1>2, <1>5, <1>12
    <2>2. done' = [done EXCEPT ![p] = @ + b]
      BY <1>2, <1>5, <1>12
    <2> QED
      BY <2>1, <2>2, <1>1, <1>2, <1>3, <1>4, <1>8, <1>10, <1>12 DEF k1
  <1> QED
    BY <1>11, <1>12

(* A read() moves bytes from the beginning of the pipe.                    *)
LEMMA ReadEffect ==
    ASSUME Alive, NEW p \in Process, Reads(p)
    PROVE  LET k1 == Call(p).pipe IN
           \E b \in 1..Len(content[k1]) :
              /\ b = Call(p).n \/ (b = Len(content[k1]) /\ b < Call(p).n)
              /\ got' = [got EXCEPT ![p] = @ \o SubSeq(content[k1], 1, b)]
              /\ content' = [content EXCEPT ![k1] = SubSeq(@, b + 1, Len(@))]
              /\ Len(got'[p]) = Len(got[p]) + b /\ Len(content'[k1]) = Len(content[k1]) - b
              /\ k1 \in Pipe /\ content[k1] # <<>> /\ Call(p).op \in Reader /\ Running(p)
              /\ pc[p] <= Len(Script(p)) /\ Has(p, "r") /\ done' = done /\ messages' = messages
              /\ IF Call(p).op = "read" THEN Returns(p) ELSE pc' = pc
  <1> DEFINE k1 == Call(p).pipe
             b == IF Len(Content(p)) < Call(p).n THEN Len(Content(p)) ELSE Call(p).n
  <1>1. /\ Call(p).op \in Reader /\ At(p, Call(p).op) /\ Has(p, "r") /\ Content(p) # <<>>
        /\ done' = done /\ messages' = messages
        /\ IF Call(p).op = "read" THEN Returns(p) ELSE pc' = pc
    BY DEF Reads, Reading, Reader, At
  <1>2. /\ got' = [got EXCEPT ![p] = @ \o SubSeq(Content(p), 1, b)]
        /\ content' = [content EXCEPT ![k1] = SubSeq(@, b + 1, Len(@))]
    BY DEF Reads
  <1>3. Running(p) /\ pc[p] <= Len(Script(p)) /\ CallFacts(p, pc[p])
    BY <1>1, Placed
  <1>4. k1 \in Pipe /\ Call(p).n \in Nat \ {0}
    BY <1>1, <1>3 DEF CallFacts, Call
  <1>5. content \in [Pipe -> Seq(Byte)] /\ got \in [Process -> Seq(Byte)]
    BY DEF Alive, Typed, PipesTypeOK, Byte
  <1>6. Content(p) = content[k1] /\ content[k1] \in Seq(Byte) /\ got[p] \in Seq(Byte)
    BY <1>4, <1>5 DEF Content
  <1>7. Len(content[k1]) \in Nat /\ Len(content[k1]) # 0
    BY <1>1, <1>6, LenProperties, EmptySeq
  <1>8. b \in 1..Len(content[k1]) /\ (b = Call(p).n \/ (b = Len(content[k1]) /\ b < Call(p).n))
    BY <1>4, <1>6, <1>7
  <1> HIDE DEF b, k1
  <1>9. /\ SubSeq(content[k1], 1, b) \in Seq(Byte) /\ Len(SubSeq(content[k1], 1, b)) = b
        /\ SubSeq(content[k1], b + 1, Len(content[k1])) \in Seq(Byte)
        /\ Len(SubSeq(content[k1], b + 1, Len(content[k1]))) = Len(content[k1]) - b
    BY <1>6, <1>7, <1>8, SubSeqProperties
  <1>10. got'[p] = got[p] \o SubSeq(content[k1], 1, b)
    BY <1>2, <1>5, <1>6
  <1>11. content'[k1] = SubSeq(content[k1], b + 1, Len(content[k1]))
    BY <1>2, <1>4, <1>5
  <1>12. Len(got'[p]) = Len(got[p]) + b
    BY <1>6, <1>9, <1>10, ConcatProperties
  <1> QED
    BY <1>1, <1>2, <1>3, <1>4, <1>6, <1>8, <1>9, <1>11, <1>12 DEF k1

(* Who listens, hears everything before it goes on.                        *)
LEMMA DrainedStep ==
    ASSUME Alive, Drained, [PipesNext]_pipesVars PROVE Drained'
  <1>1. choice' = choice
    BY Lives DEF Process
  <1> SUFFICES ASSUME Listening
               PROVE  /\ \A p \in Process : got'[p] # <<>> => p = Ear /\ pc'[p] >= EarPlace
                      /\ program # "block" /\ pc'[Ear] > EarPlace => content'[1] = <<>> /\ Holders(1, "w")' = {}
                      /\ program = "block" =>
                             Len(got'[2]) + Len(content'[1]) = IF messages'[1] = 0 THEN done'[1] ELSE size
                      /\ program = "block" /\ pc'[2] > 1 => Len(got'[2]) >= size
    BY <1>1, SameScripts DEF Drained, Listening, Ear, EarPlace
  <1>2. Family /\ program # "shell" /\ Ear \in {1, 2} /\ EarPlace \in {1, 2, 4} /\ Ear \in Process
    BY DEF Listening, Family, Strangers, Ear, EarPlace, Process
  <1>3. pc \in [Process -> 1..15] /\ size \in Nat /\ program \in Programs
    BY PipeSizeAssumption DEF Alive, Typed, PipesTypeOK
  <1>13. content \in [Pipe -> Seq(Byte)] /\ got \in [Process -> Seq(Byte)]
    BY DEF Alive, Typed, PipesTypeOK, Byte
  <1>14. done \in [Process -> Nat] /\ messages \in [Process -> 0..3]
    BY DEF Alive, Typed, PipesTypeOK
  <1>15. pc[1] \in Nat /\ pc[2] \in Nat /\ pc[Ear] \in Nat /\ 1 \in Process /\ 2 \in Process
    BY <1>2, <1>3 DEF Process
  <1>4. \A p \in Process : pc'[p] = pc[p] \/ (pc'[p] = pc[p] + 1 /\ Step(p) /\ life[p] = "run")
    BY <1>2, Lives
  <1>5. ASSUME NEW p \in Process, Reads(p)
        PROVE  /\ p = Ear /\ pc[p] = EarPlace /\ Call(p).pipe = 1 /\ pc' = pc
    <2>1. Call(p).op \in Reader /\ pc[p] <= Len(Script(p)) /\ (Call(p).op = "read" \/ pc' = pc)
      BY <1>5, ReadEffect
    <2>2. pc[p] \in 1..Len(Script(p))
      BY <2>1, InACall DEF Alive, Typed
    <2>3. p = Ear /\ pc[p] = EarPlace /\ Call(p).pipe = 1 /\ Call(p).op # "read"
      BY <2>1, <2>2, <1>3, Ears DEF Call
    <2> QED
      BY <2>1, <2>3
  <1>6. ASSUME NEW p \in Process, Writes(p)
        PROVE  /\ p \in {1, 2} /\ p # Ear /\ Call(p).pipe = 1 /\ Has(p, "w")
               /\ program = "block" => Call(p).n = size /\ pc[p] = 3
    <2>1. Call(p).op \in Writer /\ pc[p] <= Len(Script(p)) /\ Has(p, "w")
      BY <1>6, WriteEffect
    <2>2. pc[p] \in 1..Len(Script(p))
      BY <2>1, InACall DEF Alive, Typed
    <2> QED
      BY <2>1, <2>2, <1>3, Ears DEF Call
  <1>7. flow' = flow \/ \E p \in Process : Writes(p) \/ Reads(p)
    BY <1>2, Flowing
  <1>8. ASSUME NEW p \in Process, got'[p] # <<>> PROVE p = Ear /\ pc'[p] >= EarPlace
    <2>1. got[p] # <<>> => p = Ear /\ pc[p] >= EarPlace
      BY DEF Drained, Listening
    <2>2. CASE got'[p] = got[p]
      <3>1. p = Ear /\ pc[p] >= EarPlace
        BY <1>8, <2>1, <2>2
      <3> QED
        BY <3>1, <1>2, <1>4, <1>15
    <2>3. CASE \E c \in Process : Reads(c)
      <3>1. PICK c \in Process : Reads(c)
        BY <2>3
      <3>2. CASE c = p
        BY <1>2, <1>3, <1>5, <3>1, <3>2
      <3>3. CASE c # p
        <4>1. got' = [got EXCEPT ![c] = got'[c]]
          BY <3>1, <1>13, ReadEffect
        <4> QED
          BY <4>1, <2>2, <3>3, <1>13
      <3> QED
        BY <3>2, <3>3
    <2>4. CASE \E c \in Process : Writes(c)
      BY <2>2, <2>4, WriteEffect
    <2> QED
      BY <2>2, <2>3, <2>4, <1>7 DEF flow
  <1>9. pc'[Ear] # pc[Ear] /\ pc[Ear] = EarPlace => EndOfFile(Ear)
    <2> SUFFICES ASSUME pc'[Ear] # pc[Ear], pc[Ear] = EarPlace PROVE EndOfFile(Ear)
      OBVIOUS
    <2>0. pc[Ear] = EarPlace
      OBVIOUS
    <2>1. Step(Ear) /\ ~Exit(Ear)
      BY <1>2, <1>4 DEF Exit
    <2>2. pc[Ear] \in 1..Len(Script(Ear))
      <3>1. Len(Script(Ear)) \in Nat
        BY ScriptLengths, <1>2, <1>3
      <3>2. EarPlace <= Len(Script(Ear))
        BY DEF Listening, Ear, EarPlace, Script, Pipe3Child, Pipe4Parent, Pipe5Child, BlockChild
      <3> QED
        BY <3>1, <3>2, <1>2, <2>0
    <2>3. Call(Ear).op \in Reader \ {"read"}
      BY <2>2, <1>2, <1>3, Ears DEF Call, Reader
    <2>4. ~Reads(Ear)
      BY <2>3 DEF Reads
    <2> QED
      BY <2>1, <2>3, <2>4 DEF Step, MakesPipe, Forks, ForkFails, Closes, Reaps, WaitsAny, WaitsFor, GoesOn,
         Writes, BreaksPipe, BadDescriptor, MakesFifo, OpenFails, Opens, At, Reader
  <1>10. ASSUME program # "block", pc'[Ear] > EarPlace
         PROVE  content'[1] = <<>> /\ Holders(1, "w")' = {}
    <2>1. CASE pc[Ear] > EarPlace
      <3>1. content[1] = <<>> /\ Holders(1, "w") = {}
        BY <1>10, <2>1 DEF Drained, Listening
      <3>2. \A p \in Process : ~Writes(p) /\ ~Reads(p)
        <4>1. ASSUME NEW p \in Process, Reads(p) PROVE FALSE
          BY <4>1, <1>5, <1>15, <1>2, <2>1
        <4>2. ASSUME NEW p \in Process, Writes(p) PROVE FALSE
          BY <4>2, <3>1, <1>6 DEF Holders, Has
        <4> QED
          BY <4>1, <4>2
      <3>3. pc[1] > 1
        <4>1. CASE Ear = 1
          BY <4>1, <2>1, <1>2, <1>15 DEF EarPlace
        <4>2. CASE Ear = 2
          <5>1. life[2] # "none" /\ Birth(2) = 2
            BY <4>2, <2>1, <1>2 DEF Alive, Typed, Unborn, Birth, Listening
          <5> QED
            BY <5>1, <1>2, <1>15 DEF Alive, Births, Family
        <4> QED
          BY <4>1, <4>2, <1>2
      <3> QED
        BY <3>1, <3>2, <3>3, <1>2, <1>7, NoNewEnds DEF flow
    <2>2. CASE ~(pc[Ear] > EarPlace)
      <3>1. pc[Ear] = EarPlace /\ pc'[Ear] # pc[Ear]
        BY <1>2, <1>15, <1>4, <1>10, <2>2
      <3>2. EndOfFile(Ear)
        BY <3>1, <1>9
      <3>3. ~ReadsEnough(Ear) /\ Call(Ear).pipe = 1
        <4>1. pc[Ear] \in 1..Len(Script(Ear)) /\ Call(Ear).op \in Reader
          <5>1. At(Ear, Call(Ear).op) /\ Call(Ear).op \in Reader
            BY <3>2 DEF EndOfFile, Reading, At, Reader
          <5> QED
            BY <5>1, <1>2, InACall DEF At, Alive, Typed
        <4> QED
          BY <4>1, <1>2, <1>3, <1>10, Ears DEF ReadsEnough, At, Call
      <3> QED
        BY <3>2, <3>3 DEF EndOfFile, Content, flow, Holders
    <2> QED
      BY <2>1, <2>2
  <1>11. ASSUME program = "block" PROVE
             Len(got'[2]) + Len(content'[1]) = IF messages'[1] = 0 THEN done'[1] ELSE size
    <2> DEFINE g == Len(got[2])      h == Len(content[1])
               g1 == Len(got'[2])    h1 == Len(content'[1])
    <2>1. g + h = IF messages[1] = 0 THEN done[1] ELSE size
      BY <1>11 DEF Drained
    <2>2. g \in Nat /\ h \in Nat /\ done[1] \in Nat /\ messages[1] \in Nat /\ Ear = 2
      <3>1. got[2] \in Seq(Byte) /\ content[1] \in Seq(Byte)
        BY <1>13, <1>15 DEF Pipe
      <3>2. done[1] \in Nat /\ messages[1] \in 0..3
        BY <1>14, <1>15
      <3> QED
        BY <3>1, <3>2, <1>11, LenProperties DEF Ear
    <2>3. CASE flow' = flow
      BY <2>1, <2>3 DEF flow
    <2>4. ASSUME NEW p \in Process, Reads(p)
          PROVE  g1 + h1 = IF messages'[1] = 0 THEN done'[1] ELSE size
      <3>1. p = 2 /\ Call(2).pipe = 1 /\ Reads(2)
        BY <2>2, <2>4, <1>5
      <3>2. PICK b \in 1..h : g1 = g + b /\ h1 = h - b /\ done' = done /\ messages' = messages
        BY <3>1, <1>15, ReadEffect
      <3> HIDE DEF g, h, g1, h1
      <3>3. g1 + h1 = g + h
        BY <2>2, <3>2
      <3> QED
        BY <2>1, <3>2, <3>3
    <2>5. ASSUME NEW p \in Process, Writes(p)
          PROVE  g1 + h1 = IF messages'[1] = 0 THEN done'[1] ELSE size
      <3>1. p = 1 /\ Call(1).pipe = 1 /\ Call(1).n = size /\ pc[1] = 3 /\ Writes(1)
        BY <2>2, <2>5, <1>6, <1>11
      <3>2. messages[1] = 0
        <4>1. messages[1] <= Turn(1, pc[1])
          BY DEF Alive, Typed, InTurn, Process
        <4> QED
          BY <4>1, <3>1, <2>2, <1>11 DEF Turn, FirstWrite
      <3>3. PICK b \in Nat : /\ h1 = h + b /\ got' = got
                             /\ \/ /\ b = size - done[1] /\ messages' = [messages EXCEPT ![1] = @ + 1]
                                \/ /\ done' = [done EXCEPT ![1] = @ + b] /\ messages' = messages
        BY ZenonT(30), <3>1, <1>15, WriteEffect
      <3>4. /\ messages' = [messages EXCEPT ![1] = @ + 1] => messages'[1] = 1
            /\ done' = [done EXCEPT ![1] = @ + b] => done'[1] = done[1] + b
            /\ g1 = g
        BY <3>2, <3>3, <1>14, <1>15
      <3> HIDE DEF g, h, g1, h1
      <3>5. g1 + h1 = done[1] + b
        BY <2>1, <2>2, <3>2, <3>3, <3>4
      <3> QED
        BY <2>2, <3>2, <3>3, <3>4, <3>5, <1>3
    <2> QED
      BY <2>3, <2>4, <2>5, <1>7
  <1>12. ASSUME program = "block", pc'[2] > 1 PROVE Len(got'[2]) >= size
    <2>1. Len(got[2]) \in Nat /\ Ear = 2 /\ EarPlace = 1 /\ pc[2] \in 1..15
      BY <1>3, <1>12, LenProperties DEF Process, Ear, EarPlace
    <2>2. CASE pc[2] > 1
      <3>1. \A p \in Process : ~Reads(p)
        BY <2>1, <2>2, <1>5
      <3>2. got' = got
        BY <3>1, <1>7, WriteEffect DEF flow
      <3> QED
        BY <3>2, <1>12, <2>2 DEF Drained
    <2>3. CASE ~(pc[2] > 1)
      <3>1. EndOfFile(2)
        BY <1>9, <1>12, <2>1, <2>3
      <3>2. life[2] = "run" /\ pc[2] = 1
        BY <1>4, <1>12, <2>1, <2>3 DEF Process
      <3>3. <<1, "w">> \in held[2]
        BY <3>2, <1>2, <1>12 DEF Alive, Holding, Running, Family, Owned, Both, Process
      <3>4. Call(2).pipe = 1 /\ Call(2).until = size
        BY <3>2, <1>12 DEF Call, Script, BlockChild, ReadFor
      <3>5. Len(got[2]) >= size
        BY <3>1, <3>3, <3>4 DEF EndOfFile, ReadsEnough, Holders, Process
      <3> QED
        BY <3>1, <3>5 DEF EndOfFile, flow
    <2> QED
      BY <2>2, <2>3
  <1> QED
    BY <1>8, <1>10, <1>11, <1>12

(* Where strangers open FIFOs, by enumeration.                             *)
LEMMA Doors ==
    ASSUME Strangers, NEW p \in Process, NEW x \in 1..Len(Script(p))
    PROVE  LET c == Script(p)[x] IN
           /\ c.op = "open" =>
                 \/ c = Open(Line(p), "w") /\ x = Door(p)
                 \/ c = Open(3 - Line(p), "r") /\ x # Door(p)
           /\ x = Door(p) => c.op = "open" /\ c.pipe = Line(p) /\ c.end = "w"
  <1> USE DEF Strangers, Process, Script, Server, Client, Line, Door, Mkfifo, Open, Read, Write, Reply
  <1>1. CASE program = "half"
    BY <1>1 DEF HalfServer, HalfClient
  <1>2. CASE program = "full"
    BY <1>2 DEF FullServer, FullClient
  <1> QED
    BY <1>1, <1>2

(* A process goes on by a step of its own, or when the FIFO it waits for   *)
(* is opened at the other end.                                             *)
LEMMA GoesBy ==
    ASSUME Alive, [PipesNext]_pipesVars, NEW q \in Process, pc'[q] # pc[q]
    PROVE  \/ Step(q)
           \/ \E p \in Process : Opens(p) /\ q \in Opening(Call(p).pipe, Other(Call(p).end))
  <1>1. pc \in [Process -> 1..15] /\ pc' # pc
    BY DEF Alive, Typed, PipesTypeOK
  <1>2. PICK p \in Process : Start(p) \/ Kill(p) \/ Step(p)
    BY <1>1 DEF PipesNext, pipesVars
  <1>3. Step(p)
    BY <1>1, <1>2 DEF Start, Kill
  <1>4. CASE Opens(p)
    BY <1>1, <1>3, <1>4 DEF Opens
  <1>5. CASE ~Opens(p)
    <2>1. Returns(p)
      BY <1>1, <1>3, <1>5 DEF Step, Exit, MakesPipe, Forks, ForkFails, Closes, Reaps, WaitsAny, WaitsFor,
         GoesOn, Writes, BreaksPipe, Reads, EndOfFile, BadDescriptor, MakesFifo, OpenFails
    <2> QED
      BY <1>1, <1>3, <2>1 DEF Returns
  <1> QED
    BY <1>4, <1>5

(* What a step may do to what strangers hold.                              *)
LEMMA StrangersHold ==
    ASSUME Alive, Strangers, [PipesNext]_pipesVars, NEW q \in Process
    PROVE  /\ fifos \subseteq fifos'
           /\ \/ held'[q] = held[q]
              \/ held'[q] = {} /\ life'[q] \in Dead
              \/ /\ Opens(q) /\ held'[q] = held[q] \cup {<<Call(q).pipe, Call(q).end>>}
                 /\ Call(q).pipe \in fifos
  <1>1. held \in [Process -> SUBSET Ends] /\ life \in [Process -> {"none", "run", "exited", "killed", "SIGPIPE"}]
    BY DEF Alive, Typed, PipesTypeOK
  <1>2. CASE UNCHANGED pipesVars
    BY <1>2 DEF pipesVars
  <1>3. ASSUME NEW p \in Process, Start(p) \/ Kill(p) \/ Step(p)
        PROVE  /\ fifos \subseteq fifos'
               /\ \/ held'[q] = held[q]
                  \/ held'[q] = {} /\ life'[q] \in Dead
                  \/ /\ Opens(q) /\ held'[q] = held[q] \cup {<<Call(q).pipe, Call(q).end>>}
                     /\ Call(q).pipe \in fifos
    <2>1. CASE Opens(p)
      BY <1>1, <2>1 DEF Opens
    <2>2. CASE MakesPipe(p) \/ Forks(p) \/ Closes(p)
      <3>1. PICK o \in {"pipe", "fork", "close"} : At(p, o)
        BY <2>2 DEF MakesPipe, Forks, Closes
      <3>2. Call(p).op = o /\ CallFacts(p, pc[p])
        BY <3>1, Placed
      <3> QED
        BY <3>2 DEF CallFacts, Call, Family
    <2>3. CASE \E how \in Dead : Dies(p, how) /\ fifos' = fifos
      BY <1>1, <2>3 DEF Dies
    <2>4. CASE held' = held /\ fifos \subseteq fifos'
      BY <2>4
    <2> QED
      BY <1>3, <2>1, <2>2, <2>3, <2>4 DEF Start, Kill, Step, Exit, ForkFails, Reaps, WaitsAny,
         WaitsFor, GoesOn, Writes, BreaksPipe, Reads, EndOfFile, BadDescriptor, MakesFifo, OpenFails, Dead
  <1> QED
    BY <1>2, <1>3 DEF PipesNext

(* Who has opened a FIFO to write has met somebody who reads from it.      *)
LEMMA MetStep ==
    ASSUME Alive, Met, [PipesNext]_pipesVars PROVE Met'
  <1>1. choice' = choice /\ Alive'
    BY Lives, AliveStep DEF Process
  <1> SUFFICES ASSUME Strangers
               PROVE  /\ \A q \in Process : \A h \in held'[q] : h[1] \in fifos'
                      /\ \A q \in Server \cup Client : pc'[q] > Door(q) /\ <<Line(q), "w">> \in held'[q] =>
                            \E o \in Peers(q) : <<Line(q), "r">> \in held'[o] \/ life'[o] \in Dead
    BY <1>1, SameScripts DEF Met, Server, Client, Line, Door, Peers, Dead
  <1>2. ASSUME NEW q \in Process, NEW h \in held'[q] PROVE h[1] \in fifos'
    <2>1. \A g \in held[q] : g[1] \in fifos
      BY DEF Met
    <2>2. /\ fifos \subseteq fifos'
          /\ \/ held'[q] = held[q]
             \/ held'[q] = {} /\ life'[q] \in Dead
             \/ /\ Opens(q) /\ held'[q] = held[q] \cup {<<Call(q).pipe, Call(q).end>>}
                /\ Call(q).pipe \in fifos
      BY StrangersHold
    <2>3. \A a, b : <<a, b>>[1] = a
      OBVIOUS
    <2> QED
      BY <1>2, <2>1, <2>2, <2>3
  <1>3. pc \in [Process -> 1..15] /\ 1 \notin Client /\ Server \cup Client \subseteq Process
    BY DEF Alive, Typed, PipesTypeOK, Server, Client, Process
  <1>4. ASSUME NEW q \in Server \cup Client, pc'[q] > Door(q), <<Line(q), "w">> \in held'[q]
        PROVE  \E o \in Peers(q) : <<Line(q), "r">> \in held'[o] \/ life'[o] \in Dead
    <2>1. q \in Process /\ Peers(q) \subseteq Process /\ pc[q] \in 1..15 /\ Door(q) \in {1, 4}
      BY <1>3 DEF Peers, Server, Client, Process, Door
    <2>2. pc'[q] = pc[q] \/ pc'[q] = pc[q] + 1
      BY <2>1, Lives
    <2>3. ASSUME NEW o \in Peers(q), <<Line(q), "r">> \in held[o] \/ life[o] \in Dead
          PROVE  <<Line(q), "r">> \in held'[o] \/ life'[o] \in Dead
      <3>1. o \in Process
        BY <2>1
      <3>2. life[o] \in Dead => life'[o] \in Dead
        BY <3>1, Lives DEF Dead
      <3> QED
        BY <2>3, <3>1, <3>2, StrangersHold
    <2>4. \/ held'[q] = held[q] \/ held'[q] = {}
          \/ Opens(q) /\ held'[q] = held[q] \cup {<<Call(q).pipe, Call(q).end>>}
      BY <2>1, StrangersHold
    <2>5. ASSUME NEW p \in Process, Opens(p)
          PROVE  /\ Call(p).op = "open" /\ pc[p] \in 1..Len(Script(p)) /\ Running(p)
                 /\ held'[p] = held[p] \cup {<<Call(p).pipe, Call(p).end>>}
      <3>1. At(p, "open")
        BY <2>5 DEF Opens
      <3>2. Call(p).op = "open" /\ pc[p] <= Len(Script(p)) /\ Running(p) /\ held \in [Process -> SUBSET Ends]
        BY <3>1, Placed
      <3>3. held' = [held EXCEPT ![p] = @ \cup {<<Call(p).pipe, Call(p).end>>}]
        BY <2>5 DEF Opens
      <3>4. pc[p] \in 1..Len(Script(p))
        BY <3>2, InACall DEF Alive, Typed
      <3> QED
        BY <3>2, <3>3, <3>4
    <2>6. CASE pc[q] > Door(q)
      <3>1. <<Line(q), "w">> \in held[q]
        <4>1. CASE Opens(q) /\ <<Line(q), "w">> = <<Call(q).pipe, Call(q).end>>
          <5>1. Call(q).op = "open" /\ pc[q] \in 1..Len(Script(q)) /\ Call(q).end = "w"
            BY <2>1, <2>5, <4>1
          <5>2. Open(3 - Line(q), "r").end = "r"
            BY DEF Open
          <5>3. pc[q] = Door(q)
            BY <5>1, <5>2, <2>1, Doors DEF Call
          <5> QED
            BY <5>3, <2>1, <2>6
        <4> QED
          BY <1>4, <2>4, <4>1
      <3> QED
        BY <3>1, <2>3, <2>6 DEF Met
    <2>7. CASE ~(pc[q] > Door(q))
      <3>1. pc[q] = Door(q) /\ pc'[q] # pc[q]
        BY <1>4, <2>1, <2>2, <2>7
      <3>2. life[q] = "run" /\ pc[q] \in 1..Len(Script(q))
        <4>1. Len(Script(q)) \in Nat
          BY <2>1, ScriptLengths DEF Alive, Typed, PipesTypeOK
        <4>2. Door(q) <= Len(Script(q))
          <5>1. CASE program = "half" /\ q \in Server
            <6>1. pc'[q] <= Len(Script(q)') + 1
              BY <1>1, <2>1 DEF Alive, Typed, InPlace
            <6>2. Script(q)' = Script(q) /\ Len(Script(q)) = 3 /\ Door(q) = 4
              BY <5>1, <2>1, <1>1, SameScripts DEF Script, HalfServer, Door
            <6> QED
              BY <6>1, <6>2, <2>1, <2>2, <3>1
          <5>2. CASE program = "half" /\ q \notin Server
            BY <5>2 DEF Script, HalfClient, Door
          <5>3. CASE program = "full"
            BY <5>3 DEF Script, FullServer, FullClient, Door, Server
          <5> QED
            BY <5>1, <5>2, <5>3 DEF Strangers
        <4> QED
          BY <3>1, <4>1, <4>2, <2>1, Lives
      <3>3. Call(q).op = "open" /\ Call(q).pipe = Line(q) /\ Call(q).end = "w"
        BY <3>1, <3>2, <2>1, Doors DEF Call
      <3>4. \/ Step(q)
            \/ \E p \in Process : Opens(p) /\ q \in Opening(Call(p).pipe, Other(Call(p).end))
        BY <3>1, <2>1, GoesBy
      <3>5. CASE Step(q)
        <4>1. OpenFails(q) \/ Opens(q)
          BY <3>1, <3>3, <3>5 DEF Step, Exit, MakesPipe, Forks, ForkFails, Closes, Reaps, WaitsAny, WaitsFor,
             GoesOn, Writes, BreaksPipe, Reads, EndOfFile, BadDescriptor, MakesFifo, At, Reading
        <4>2. CASE OpenFails(q)
          <5>1. held' = held /\ Line(q) \notin fifos
            BY <4>2, <3>3 DEF OpenFails
          <5>2. <<Line(q), "w">>[1] \in fifos
            BY <5>1, <1>4, <2>1 DEF Met
          <5> QED
            BY <5>1, <5>2
        <4>3. CASE Opens(q)
          <5>1. Holders(Line(q), "r") # {}
            BY <4>3, <3>1, <3>3 DEF Opens, Other
          <5>2. PICK o \in Process : <<Line(q), "r">> \in held[o]
            BY <5>1 DEF Holders
          <5>3. <<Line(q), "r">> \in Side(o)
            BY <5>2 DEF Alive, Holding
          <5>4. o \in Peers(q) \/ o = 5
            BY <5>2, <5>3, <1>4 DEF Side, Peers, Line, Server, Client, Process
          <5>5. o # 5
            BY <5>2 DEF Alive, Holding, Births, Users, Running, Server, Client, Process
          <5> QED
            BY <5>2, <5>4, <5>5, <2>3
        <4> QED
          BY <4>1, <4>2, <4>3
      <3>6. CASE \E p \in Process : Opens(p) /\ q \in Opening(Call(p).pipe, Other(Call(p).end))
        <4>1. PICK p \in Process : Opens(p) /\ q \in Opening(Call(p).pipe, Other(Call(p).end))
          BY <3>6
        <4>2. Call(q) = Open(Call(p).pipe, Other(Call(p).end))
          BY <4>1 DEF Opening
        <4>3. Call(p).pipe = Line(q) /\ Other(Call(p).end) = "w"
          BY <4>2, <3>3 DEF Open
        <4>4. <<Call(p).pipe, Call(p).end>> \in Side(p)
          <5>1. At(p, "open")
            BY <4>1 DEF Opens
          <5>2. Call(p).op = "open" /\ CallFacts(p, pc[p])
            BY <5>1, Placed
          <5> QED
            BY <5>2 DEF CallFacts, Call
        <4>5. Call(p).end = "r"
          BY <4>3, <4>4 DEF Other, Side
        <4>6. <<Line(q), "r">> \in held'[p] /\ Running(p)
          BY <4>1, <4>3, <4>5, <2>5
        <4>7. p \in Peers(q) \/ p = 5
          BY <4>3, <4>4, <4>5, <1>4 DEF Side, Peers, Line, Server, Client, Process
        <4>8. p # 5
          BY <4>6 DEF Alive, Births, Users, Running, Server, Client, Process
        <4> QED
          BY <4>6, <4>7, <4>8
      <3> QED
        BY <3>4, <3>5, <3>6
    <2> QED
      BY <2>6, <2>7
  <1> QED
    BY <1>2, <1>4

(* What the programs that send three messages call where, by enumeration.  *)
LEMMA MessageCalls ==
    ASSUME program \in {"Pipe1", "Pipe2"}, NEW p \in Process, NEW x \in 1..Len(Script(p))
    PROVE  LET c == Script(p)[x] IN
           /\ c.op \in Writer => /\ p = Author /\ c = Write(1, MSGSIZE)
                                 /\ Turn(p, x + 1) = Turn(p, x) + 1 /\ Turn(p, x) \in 0..2
           /\ c.op \in Reader => /\ p = 1 /\ c = Read(1, MSGSIZE)
                                 /\ ReadsBefore(x + 1) = ReadsBefore(x) + 1 /\ ReadsBefore(x) \in 0..2
           /\ p = Author /\ c.op \notin Writer => Turn(p, x + 1) = Turn(p, x)
           /\ p = 1 /\ c.op \notin Reader => ReadsBefore(x + 1) = ReadsBefore(x)
  <1> USE DEF Process, Script, Author, Writer, Reader, Turn, Span, FirstWrite, ReadsBefore,
          MakePipe, Fork, Close, Write, Read, Wait
  <1>1. CASE program = "Pipe1"
    BY <1>1 DEF Pipe1
  <1>2. CASE program = "Pipe2"
    BY <1>2 DEF Pipe2Parent, Pipe2Child
  <1> QED
    BY <1>1, <1>2

(* ConcatAssociative for sequences of bytes, in a form Zenon can use.       *)
LEMMA Associative ==
    \A s, t, u \in Seq(Byte) : (s \o t) \o u = s \o (t \o u)
  BY ConcatAssociative

(* Bytes that go from the beginning of one sequence to the end of another. *)
LEMMA HandedOver ==
    ASSUME NEW g \in Seq(Byte), NEW c \in Seq(Byte), NEW b \in 1..Len(c)
    PROVE  (g \o SubSeq(c, 1, b)) \o SubSeq(c, b + 1, Len(c)) = g \o c
  <1>1. Len(c) \in Nat /\ \A j \in 1..Len(c) : c[j] \in Byte
    BY LenProperties
  <1>2. SubSeq(c, 1, b) \in Seq(Byte) /\ SubSeq(c, b + 1, Len(c)) \in Seq(Byte)
    BY <1>1, SubSeqProperties
  <1>3. SubSeq(c, 1, b) \o SubSeq(c, b + 1, Len(c)) = SubSeq(c, 1, Len(c))
    BY <1>1, ConcatAdjacentSubSeq
  <1>4. (g \o SubSeq(c, 1, b)) \o SubSeq(c, b + 1, Len(c)) = g \o (SubSeq(c, 1, b) \o SubSeq(c, b + 1, Len(c)))
    BY <1>2, Associative, Zenon
  <1>5. SubSeq(c, 1, Len(c)) = c
    BY SubSeqFull
  <1> QED
    BY <1>3, <1>4, <1>5

(* A call that returned was not of the kinds that did not.                 *)
LEMMA OnlyMoves ==
    ASSUME NEW p \in Process, Step(p), pc'[p] # pc[p]
    PROVE  /\ At(p, Call(p).op)
           /\ Call(p).op = "write" => Writes(p) \/ BreaksPipe(p) \/ BadDescriptor(p)
           /\ Call(p).op = "read" => Reads(p) \/ EndOfFile(p) \/ BadDescriptor(p)
  <1>1. ~Exit(p)
    BY DEF Exit
  <1>2. At(p, Call(p).op)
    BY <1>1 DEF Step, MakesPipe, Forks, ForkFails, Closes, Reaps, WaitsAny, WaitsFor, GoesOn, Writes,
           BreaksPipe, Reads, EndOfFile, BadDescriptor, MakesFifo, OpenFails, Opens, At, Reading
  <1>3. Call(p).op = "write" => Writes(p) \/ BreaksPipe(p) \/ BadDescriptor(p)
    BY <1>1 DEF Step, MakesPipe, Forks, ForkFails, Closes, Reaps, WaitsAny, WaitsFor, GoesOn,
           Reads, EndOfFile, MakesFifo, OpenFails, Opens, At, Reading
  <1>4. Call(p).op = "read" => Reads(p) \/ EndOfFile(p) \/ BadDescriptor(p)
    BY <1>1 DEF Step, MakesPipe, Forks, ForkFails, Closes, Reaps, WaitsAny, WaitsFor, GoesOn, Writes,
           BreaksPipe, MakesFifo, OpenFails, Opens, At
  <1> QED
    BY <1>2, <1>3, <1>4

(* In a family everybody has the end it writes to or reads from.           *)
LEMMA EndsAtHand ==
    ASSUME Alive, Family, NEW p \in Process, At(p, Call(p).op)
    PROVE  /\ Call(p).op \in Writer => Has(p, "w") /\ Call(p).pipe \in Pipe
           /\ Call(p).op \in Reader => Has(p, "r") /\ Call(p).pipe \in Pipe
  <1>1. CallFacts(p, pc[p]) /\ held[p] = Owned(p, pc[p])
    BY Placed
  <1> QED
    BY <1>1 DEF CallFacts, Call, Has

(* Whoever was killed remains so.                                          *)
LEMMA KilledForGood ==
    ASSUME Alive, [PipesNext]_pipesVars, Killed PROVE Killed'
  <1>1. PICK p \in Process : life[p] = "killed"
    BY DEF Killed
  <1>2. life'[p] = life[p]
    BY <1>1, Lives
  <1> QED
    BY <1>1, <1>2 DEF Killed

(* Pipe1.c, Pipe2.c: when a read() comes to the end of the file although   *)
(* messages are missing, somebody was killed.                              *)
LEMMA NoEarlyEnd ==
    ASSUME Alive, InOrder, SigpipeOnlyWhenGone, program \in {"Pipe1", "Pipe2"}, EndOfFile(1)
    PROVE  Killed
  <1>1. Family /\ 1 \in Process /\ 2 \in Process
    BY DEF Family, Strangers, Process
  <1>2. At(1, Call(1).op) /\ Call(1).op \in Reader
    BY DEF EndOfFile, Reading, At, Reader
  <1>3. pc[1] \in 1..Len(Script(1)) /\ held[1] = Owned(1, pc[1])
    BY <1>1, <1>2, Placed, InACall DEF Alive, Typed
  <1>4. /\ Call(1) = Read(1, MSGSIZE) /\ ReadsBefore(pc[1]) \in 0..2
    BY <1>1, <1>2, <1>3, MessageCalls DEF Call
  <1>5. ~ReadsEnough(1) /\ Call(1).pipe = 1
    BY <1>4 DEF Read, ReadsEnough, At
  <1>6. content[1] = <<>> /\ \A q \in Process : <<1, "w">> \notin held[q]
    BY <1>5 DEF EndOfFile, Content, Holders
  <1>7. program = "Pipe2"
    <2> SUFFICES ASSUME program = "Pipe1" PROVE FALSE
      OBVIOUS
    <2>1. pc[1] # 1
      BY <1>2 DEF Call, Script, Pipe1, MakePipe, Reader
    <2>2. <<1, "w">> \in held[1]
      BY <2>1, <1>3 DEF Owned, Both
    <2> QED
      BY <2>2, <1>1, <1>6
  <1>8. ~Running(2) /\ Author = 2
    BY <1>6, <1>7, <1>1 DEF Alive, Holding, Family, Owned, Both, Author
  <1>9. life[2] # "none"
    <2>1. pc[1] > 2
      BY <1>2, <1>3, <1>7 DEF Call, Script, Pipe2Parent, MakePipe, Fork, Reader
    <2>2. Birth(2) = 2
      BY <1>7 DEF Birth
    <2> QED
      BY <2>1, <2>2, <1>1, <1>7 DEF Alive, Births, Family
  <1>10. life[2] \in {"exited", "killed", "SIGPIPE"}
    <2>1. life[2] \in {"none", "run", "exited", "killed", "SIGPIPE"}
      BY <1>1 DEF Alive, Typed, PipesTypeOK
    <2> QED
      BY <2>1, <1>8, <1>9 DEF Running
  <1>11. CASE life[2] = "killed"
    BY <1>11, <1>1 DEF Killed
  <1>12. CASE life[2] = "SIGPIPE"
    BY <1>12, <1>1 DEF SigpipeOnlyWhenGone, Family
  <1>13. CASE life[2] = "exited" /\ ~Killed
    <2>1. Script(2) = Pipe2Child /\ Len(Script(2)) = 4
      BY <1>7 DEF Script, Pipe2Child
    <2>2. pc[2] \in 1..15
      BY <1>1 DEF Alive, Typed, PipesTypeOK
    <2>3. pc[2] > 4
      <3>1. pc[2] > 4 \/ Call(2).op = "fork"
        BY <1>13, <2>1, <1>1 DEF Alive, Deaths
      <3>2. pc[2] \in 1..4 => Call(2).op # "fork"
        BY <2>1 DEF Call, Pipe2Child, Close, Write
      <3> QED
        BY <2>2, <3>1, <3>2
    <2>4. messages[2] = 3
      BY <2>2, <2>3, <1>7, <1>8 DEF InOrder, Turn, FirstWrite, Span
    <2>5. Len(got[1] \o content[1]) = MSGSIZE * 3 /\ Len(got[1]) = MSGSIZE * ReadsBefore(pc[1])
      BY <2>4, <1>7, <1>8, <1>13 DEF InOrder
    <2>6. got[1] \o content[1] = got[1]
      <3>1. got[1] \in Seq(Byte)
        BY <1>1 DEF Alive, Typed, PipesTypeOK, Byte
      <3> QED
        BY <3>1, <1>6, ConcatEmptySeq
    <2>7. \A r \in 0..2 : MSGSIZE * 3 # MSGSIZE * r
      <3>1. MSGSIZE \in Nat \ {0}
        BY PipeSizeAssumption
      <3> QED
        BY <3>1
    <2> QED
      BY <2>5, <2>6, <2>7, <1>4
  <1> QED
    BY <1>10, <1>11, <1>12, <1>13

(* A process that goes on without bytes has not come past a write(), nor,  *)
(* unless somebody was killed, past a read().                              *)
LEMMA OrderOfCalls ==
    ASSUME Alive, InOrder, SigpipeOnlyWhenGone, program \in {"Pipe1", "Pipe2"},
           [PipesNext]_pipesVars, NEW p \in Process, ~Writes(p), ~Reads(p)
    PROVE  /\ p = Author => Turn(p, pc'[p]) = Turn(p, pc[p])
           /\ p = 1 => ReadsBefore(pc'[1]) = ReadsBefore(pc[1]) \/ Killed
  <1> SUFFICES ASSUME pc'[p] # pc[p]
               PROVE  /\ p = Author => Turn(p, pc'[p]) = Turn(p, pc[p])
                      /\ p = 1 => ReadsBefore(pc'[1]) = ReadsBefore(pc[1]) \/ Killed
    OBVIOUS
  <1>1. Family
    BY DEF Family, Strangers
  <1>2. pc'[p] = pc[p] + 1 /\ Step(p)
    BY <1>1, Lives
  <1>3. At(p, Call(p).op)
    BY <1>2, OnlyMoves
  <1>4. pc[p] \in 1..Len(Script(p))
    BY <1>3, Placed, InACall DEF Alive, Typed
  <1>5. /\ Call(p).op \in Writer => Call(p) = Write(1, MSGSIZE) /\ Has(p, "w")
        /\ Call(p).op \in Reader => p = 1 /\ Call(p) = Read(1, MSGSIZE) /\ Has(p, "r")
    BY <1>1, <1>3, <1>4, EndsAtHand, MessageCalls DEF Call
  <1>6. Call(p).op \notin Writer
    <2> SUFFICES ASSUME Call(p).op \in Writer PROVE FALSE
      OBVIOUS
    <2>1. Call(p).op = "write" /\ Call(p).n = MSGSIZE /\ Has(p, "w")
      BY <1>5 DEF Write
    <2>2. BreaksPipe(p)
      BY <2>1, <1>2, OnlyMoves DEF BadDescriptor, At
    <2>3. pc' = pc
      BY <2>1, <2>2, PipeSizeAssumption DEF BreaksPipe
    <2> QED
      BY <2>3
  <1>7. CASE Call(p).op \in Reader
    <2>1. p = 1 /\ Call(p).op = "read" /\ Has(p, "r")
      BY <1>5, <1>7 DEF Read
    <2>2. EndOfFile(1)
      BY <2>1, <1>2, OnlyMoves DEF BadDescriptor, At
    <2>3. Killed
      BY <2>2, NoEarlyEnd
    <2> QED
      BY <2>3, <1>2, <1>4, <1>6, MessageCalls DEF Call
  <1>8. CASE Call(p).op \notin Reader
    BY <1>8, <1>2, <1>4, <1>6, MessageCalls DEF Call
  <1> QED
    BY <1>7, <1>8

(* The messages are read in the order in which they were written.          *)
LEMMA InOrderStep ==
    ASSUME Alive, InOrder, SigpipeOnlyWhenGone, [PipesNext]_pipesVars PROVE InOrder'
  <1> DEFINE all == got[1] \o content[1]
             told == messages[Author]
  <1>1. choice' = choice /\ Alive'
    BY Lives, AliveStep DEF Process
  <1> SUFFICES ASSUME program \in {"Pipe1", "Pipe2"}
               PROVE  /\ Len(all') = MSGSIZE * messages'[Author]
                      /\ \A a \in 1..Len(all') : all'[a] = <<Author, Number(a)>>
                      /\ messages'[Author] = Turn(Author, pc'[Author])
                      /\ \E b \in 0..3 : Len(got'[1]) = b * MSGSIZE
                      /\ ~Killed' => Len(got'[1]) = MSGSIZE * ReadsBefore(pc'[1])
    <2>1. program' = program /\ Author' = Author /\ Turn(Author, pc[Author])' = Turn(Author, pc'[Author])
      <3>1. program' = program /\ Author' = Author
        BY <1>1, SameScripts DEF Author
      <3>2. \A q \in Process : Turn(q, pc[q])' = Turn(q, pc'[q])
        BY <1>1, SameScripts
      <3>3. Turn(Author, pc[Author])' = Turn(Author, pc'[Author])
        <4>1. CASE program = "Pipe1"
          BY <4>1, <3>1, <3>2 DEF Author, Process
        <4>2. CASE program # "Pipe1"
          BY <4>2, <3>1, <3>2 DEF Author, Process
        <4> QED
          BY <4>1, <4>2
      <3> QED
        BY <3>1, <3>3
    <2>2. ReadsBefore(pc[1])' = ReadsBefore(pc'[1]) /\ messages[Author]' = messages'[Author]
          /\ \A a : Number(a)' = Number(a)
      BY <2>1 DEF ReadsBefore, Number
    <2> QED
      BY <2>1, <2>2 DEF InOrder
  <1>2. /\ Len(all) = MSGSIZE * told
        /\ \A a \in 1..Len(all) : all[a] = <<Author, Number(a)>>
        /\ told = Turn(Author, pc[Author])
        /\ \E b \in 0..3 : Len(got[1]) = b * MSGSIZE
        /\ ~Killed => Len(got[1]) = MSGSIZE * ReadsBefore(pc[1])
    BY DEF InOrder
  <1>3. /\ Family /\ 1 \in Process /\ Author \in Process /\ 1 \in Pipe
        /\ MSGSIZE \in Nat \ {0} /\ Atomic(MSGSIZE)
    BY PipeSizeAssumption DEF Family, Strangers, Process, Author, Pipe, Atomic
  <1>4. /\ got[1] \in Seq(Byte) /\ content[1] \in Seq(Byte) /\ told \in 0..3
        /\ pc \in [Process -> 1..15] /\ messages \in [Process -> 0..3] /\ done[Author] \in Nat
        /\ content \in [Pipe -> Seq(Byte)] /\ got \in [Process -> Seq(Byte)]
    <2>1. content \in [Pipe -> Seq(Byte)] /\ got \in [Process -> Seq(Byte)]
      BY DEF Alive, Typed, PipesTypeOK, Byte
    <2>2. messages \in [Process -> 0..3] /\ done \in [Process -> Nat] /\ pc \in [Process -> 1..15]
      BY DEF Alive, Typed, PipesTypeOK
    <2> QED
      BY <2>1, <2>2, <1>3
  <1>5. Killed => Killed'
    BY KilledForGood
  <1>6. CASE flow' = flow /\ ~(\E p \in Process : Writes(p) \/ Reads(p))
    <2>1. content' = content /\ messages' = messages /\ got' = got
      BY <1>6 DEF flow
    <2>2. Turn(Author, pc'[Author]) = Turn(Author, pc[Author])
      BY <1>3, <1>6, OrderOfCalls
    <2>3. ReadsBefore(pc'[1]) = ReadsBefore(pc[1]) \/ Killed
      BY <1>3, <1>6, OrderOfCalls
    <2> HIDE DEF all
    <2>4. all' = all
      BY <2>1 DEF all
    <2> QED
      BY <1>2, <1>5, <2>1, <2>2, <2>3, <2>4
  <1>7. ASSUME NEW p \in Process, Writes(p)
        PROVE  /\ Len(all') = MSGSIZE * messages'[Author]
               /\ \A a \in 1..Len(all') : all'[a] = <<Author, Number(a)>>
               /\ messages'[Author] = Turn(Author, pc'[Author])
               /\ got' = got /\ ReadsBefore(pc'[1]) = ReadsBefore(pc[1])
    <2>1. Call(p).op \in Writer /\ pc[p] <= Len(Script(p)) /\ got' = got
      BY <1>7, WriteEffect
    <2>2. pc[p] \in 1..Len(Script(p))
      BY <2>1, InACall DEF Alive, Typed
    <2>3. /\ p = Author /\ Call(p) = Write(1, MSGSIZE)
          /\ Turn(p, pc[p] + 1) = Turn(p, pc[p]) + 1 /\ Turn(p, pc[p]) \in 0..2
      BY <2>1, <2>2, MessageCalls DEF Call
    <2>4. Call(p).pipe = 1 /\ Call(p).n = MSGSIZE /\ Call(p).op = "write"
      BY <2>3 DEF Write
    <2>5. done[p] = 0
      BY <1>3, <2>4 DEF Alive, Typed, Partial, PartOf
    <2>6. PICK b \in Nat :
            /\ content' = [content EXCEPT ![1] = @ \o Bytes(Written(p), b)]
            /\ b = MSGSIZE /\ messages' = [messages EXCEPT ![p] = @ + 1] /\ Returns(p)
      <3>1. PICK b \in Nat :
            /\ content' = [content EXCEPT ![Call(p).pipe] = @ \o Bytes(Written(p), b)]
            /\ \/ /\ b = Call(p).n - done[p] /\ done' = [done EXCEPT ![p] = 0]
                  /\ messages' = [messages EXCEPT ![p] = @ + 1] /\ Returns(p)
               \/ ~Atomic(Call(p).n)
        BY <1>7, WriteEffect
      <3>2. b = MSGSIZE - 0 /\ b = MSGSIZE /\ messages' = [messages EXCEPT ![p] = @ + 1] /\ Returns(p)
        BY <3>1, <2>4, <2>5, <1>3
      <3>3. content' = [content EXCEPT ![1] = @ \o Bytes(Written(p), b)]
        BY <3>1, <2>4
      <3> QED
        BY <3>2, <3>3
    <2>7. /\ Written(p) = <<Author, told + 1>> /\ messages'[Author] = told + 1 /\ told \in 0..2
          /\ pc'[p] = pc[p] + 1
      BY <2>2, <2>3, <2>4, <2>6, <1>2, <1>3, <1>4 DEF Written, Returns
    <2> DEFINE word == Bytes(<<Author, told + 1>>, MSGSIZE)
    <2>8. word \in Seq(Byte) /\ Len(word) = MSGSIZE /\ \A a \in 1..MSGSIZE : word[a] = <<Author, told + 1>>
      <3>1. <<Author, told + 1>> \in Byte
        BY <2>7, <1>3 DEF Byte, Process
      <3> QED
        BY <3>1, <1>3 DEF Bytes
    <2>9. content'[1] = content[1] \o word
      BY <2>6, <2>7, <1>3, <1>4
    <2> HIDE DEF word
    <2>10. all' = all \o word
      <3>1. (got[1] \o content[1]) \o word = got[1] \o (content[1] \o word)
        BY <2>8, <1>4, Associative, Zenon
      <3> QED
        BY <3>1, <2>1, <2>9
    <2>11. all \in Seq(Byte)
      BY <1>4, ConcatProperties
    <2> HIDE DEF all
    <2>12. /\ Len(all') = Len(all) + MSGSIZE /\ Len(all) \in Nat
           /\ \A a \in 1..Len(all) + MSGSIZE : all'[a] = IF a <= Len(all) THEN all[a] ELSE word[a - Len(all)]
      BY SMTT(30), <2>8, <2>10, <2>11, ConcatProperties, LenProperties
    <2> HIDE DEF told
    <2>13. MSGSIZE * (told + 1) = MSGSIZE * told + MSGSIZE
      BY <2>7, <1>3
    <2>14. ASSUME NEW a \in Nat, MSGSIZE * told < a, a <= MSGSIZE * told + MSGSIZE
           PROVE  Number(a) = told + 1
      <3>1. told = 0 \/ told = 1 \/ told = 2
        BY <2>7
      <3> QED
        BY <3>1, <2>14, <1>3 DEF Number
    <2>15. \A a \in 1..Len(all') : all'[a] = <<Author, Number(a)>>
      <3>1. ASSUME NEW a \in 1..Len(all'), a <= Len(all) PROVE all'[a] = <<Author, Number(a)>>
        BY <3>1, <2>12, <1>2
      <3>2. ASSUME NEW a \in 1..Len(all'), ~(a <= Len(all)) PROVE all'[a] = <<Author, Number(a)>>
        <4>1. a \in Nat /\ MSGSIZE * told < a /\ a <= MSGSIZE * told + MSGSIZE /\ a - Len(all) \in 1..MSGSIZE
          BY <3>2, <2>12, <1>2, <1>3
        <4>2. all'[a] = word[a - Len(all)]
          BY <4>1, <3>2, <2>12
        <4> QED
          BY <4>1, <4>2, <2>8, <2>14
      <3> QED
        BY <3>1, <3>2
    <2>16. ReadsBefore(pc'[1]) = ReadsBefore(pc[1])
      <3>1. p = 1 => Call(p).op \notin Reader
        BY <2>4 DEF Reader
      <3>2. p = 1 => ReadsBefore(pc[p] + 1) = ReadsBefore(pc[p])
        BY <3>1, <2>2, MessageCalls DEF Call
      <3>3. p # 1 => pc'[1] = pc[1]
        BY <2>6, <1>3, <1>4 DEF Returns
      <3> QED
        BY <3>2, <3>3, <2>7
    <2> QED
      BY <2>1, <2>3, <2>7, <2>12, <2>13, <2>15, <2>16, <1>2 DEF told
  <1>8. ASSUME NEW p \in Process, Reads(p)
        PROVE  /\ all' = all /\ messages' = messages
               /\ Turn(Author, pc'[Author]) = Turn(Author, pc[Author])
               /\ Len(got'[1]) = Len(got[1]) + MSGSIZE
               /\ ReadsBefore(pc'[1]) = ReadsBefore(pc[1]) + 1
               /\ Len(got[1]) + MSGSIZE <= Len(all) /\ ReadsBefore(pc[1]) \in 0..2
    <2>1. PICK b \in 1..Len(content[Call(p).pipe]) :
            /\ b = Call(p).n \/ (b = Len(content[Call(p).pipe]) /\ b < Call(p).n)
            /\ got' = [got EXCEPT ![p] = @ \o SubSeq(content[Call(p).pipe], 1, b)]
            /\ content' = [content EXCEPT ![Call(p).pipe] = SubSeq(@, b + 1, Len(@))]
            /\ Len(got'[p]) = Len(got[p]) + b
            /\ Call(p).op \in Reader /\ pc[p] <= Len(Script(p)) /\ messages' = messages
            /\ IF Call(p).op = "read" THEN Returns(p) ELSE pc' = pc
      BY <1>8, ReadEffect
    <2>2. pc[p] \in 1..Len(Script(p))
      BY <2>1, InACall DEF Alive, Typed
    <2>3. /\ p = 1 /\ Call(p) = Read(1, MSGSIZE)
          /\ ReadsBefore(pc[1] + 1) = ReadsBefore(pc[1]) + 1 /\ ReadsBefore(pc[1]) \in 0..2
      BY <2>1, <2>2, MessageCalls DEF Call
    <2>4. Call(p).pipe = 1 /\ Call(p).n = MSGSIZE /\ Call(p).op = "read"
      BY <2>3 DEF Read
    <2>5. pc'[1] = pc[1] + 1 /\ \A q \in Process \ {1} : pc'[q] = pc[q]
      BY <2>1, <2>3, <2>4, <1>4 DEF Returns
    <2>6. got'[1] = got[1] \o SubSeq(content[1], 1, b) /\ content'[1] = SubSeq(content[1], b + 1, Len(content[1]))
      BY <2>1, <2>3, <2>4, <1>3, <1>4
    <2>7. all' = all
      <3>1. b \in 1..Len(content[1])
        BY <2>1, <2>4
      <3>2. (got[1] \o SubSeq(content[1], 1, b)) \o SubSeq(content[1], b + 1, Len(content[1])) = got[1] \o content[1]
        BY <3>1, <1>4, HandedOver
      <3> QED
        BY <3>2, <2>6
    <2>8. Len(all) = Len(got[1]) + Len(content[1]) /\ Len(got[1]) \in Nat /\ Len(content[1]) \in Nat
      BY <1>4, ConcatProperties, LenProperties
    <2>9. PICK j \in 0..3 : Len(got[1]) = j * MSGSIZE
      BY <1>2
    <2> DEFINE g == Len(got[1])
               c == Len(content[1])
    <2>10. MSGSIZE * told = j * MSGSIZE + c /\ c # 0 /\ c \in Nat
      <3>1. b \in 1..c
        BY <2>1, <2>4
      <3>2. c # 0 /\ c \in Nat
        BY <3>1, <2>8
      <3> QED
        BY <3>2, <1>2, <2>8, <2>9
    <2> HIDE DEF g, c, told, all
    <2>11. c >= MSGSIZE
      <3>1. told \in {0, 1, 2, 3} /\ j \in {0, 1, 2, 3}
        BY <1>4
      <3> QED
        BY <3>1, <2>10, <1>3
    <2>12. b = MSGSIZE
      BY <2>1, <2>4, <2>11, <1>3 DEF c
    <2>13. Turn(Author, pc'[Author]) = Turn(Author, pc[Author])
      <3>1. Author = 1 => Turn(1, pc[1] + 1) = Turn(1, pc[1])
        BY <2>2, <2>3, <2>4, MessageCalls DEF Call, Writer
      <3> QED
        BY <3>1, <2>5, <1>3
    <2> QED
      BY <2>1, <2>3, <2>5, <2>7, <2>8, <2>11, <2>12, <2>13 DEF c
  <1>9. CASE \E p \in Process : Writes(p)
    <2>1. PICK p \in Process : Writes(p)
      BY <1>9
    <2> HIDE DEF all, told
    <2> QED
      BY <2>1, <1>2, <1>5, <1>7
  <1>10. CASE \E p \in Process : Reads(p)
    <2>1. PICK p \in Process : Reads(p)
      BY <1>10
    <2>2. PICK j \in 0..3 : Len(got[1]) = j * MSGSIZE
      BY <1>2
    <2> HIDE DEF all
    <2>3. \E b \in 0..3 : Len(got'[1]) = b * MSGSIZE
      <3>1. Len(got'[1]) = j * MSGSIZE + MSGSIZE /\ j * MSGSIZE + MSGSIZE <= MSGSIZE * told
        BY <2>1, <2>2, <1>2, <1>8
      <3> HIDE DEF told
      <3>2. j # 3
        <4>1. told \in {0, 1, 2, 3}
          BY <1>4
        <4> QED
          BY <4>1, <3>1, <1>3
      <3>3. j + 1 \in 0..3 /\ (j + 1) * MSGSIZE = j * MSGSIZE + MSGSIZE
        BY <3>2, <1>3
      <3> QED
        BY <3>1, <3>3
    <2>4. ~Killed' => Len(got'[1]) = MSGSIZE * ReadsBefore(pc'[1])
      <3>1. \A r \in 0..2 : MSGSIZE * (r + 1) = MSGSIZE * r + MSGSIZE
        BY <1>3
      <3> QED
        BY <3>1, <2>1, <1>2, <1>5, <1>8
    <2> QED
      BY <2>1, <2>3, <2>4, <1>2, <1>8
  <1> QED
    BY <1>3, <1>6, <1>9, <1>10, Flowing

(* SIGPIPE comes from write() alone.                                       *)
LEMMA Breaks ==
    ASSUME Alive, [PipesNext]_pipesVars, NEW q \in Process, life[q] # "SIGPIPE", life'[q] = "SIGPIPE"
    PROVE  BreaksPipe(q)
  <1>1. life \in [Process -> {"none", "run", "exited", "killed", "SIGPIPE"}]
    BY DEF Alive, Typed, PipesTypeOK
  <1>2. PICK p \in Process : Start(p) \/ Kill(p) \/ Step(p)
    BY DEF PipesNext, pipesVars
  <1>3. CASE Start(p) \/ Forks(p)
    BY <1>1, <1>3 DEF Start, Forks
  <1>4. CASE \E how \in {"exited", "killed"} : Dies(p, how)
    BY <1>1, <1>4 DEF Dies
  <1>5. CASE BreaksPipe(p)
    BY <1>1, <1>5 DEF BreaksPipe, Dies
  <1>6. CASE life' = life
    BY <1>6
  <1> QED
    BY <1>2, <1>3, <1>4, <1>5, <1>6 DEF Kill, Step, Exit, ForkFails, MakesPipe, Closes, Reaps, WaitsAny,
       WaitsFor, GoesOn, Writes, Reads, EndOfFile, BadDescriptor, MakesFifo, OpenFails, Opens

(* Who listens, holds its ear open as long as somebody can speak, unless   *)
(* it was killed.                                                          *)
LEMMA EarOpen ==
    ASSUME Alive, Drained, Listening, program # "block", NEW p \in Process, p # Ear, p # 1 => p = 2,
           <<1, "w">> \in held[p], pc[1] > 2, Holders(1, "r") = {}
    PROVE  Ear \in Process /\ life[Ear] \in {"killed", "SIGPIPE"}
  <1>1. Family /\ Ear \in {1, 2} /\ Ear \in Process /\ 1 \in Process /\ 2 \in Process
    BY DEF Listening, Family, Strangers, Ear, Process
  <1>2. pc[1] \in 1..15 /\ pc[Ear] \in 1..15 /\ life[Ear] \in {"none", "run", "exited", "killed", "SIGPIPE"}
    BY <1>1 DEF Alive, Typed, PipesTypeOK
  <1>3. pc[Ear] <= EarPlace
    <2>1. Holders(1, "w") # {}
      BY DEF Holders
    <2> QED
      <3>1. EarPlace \in Nat
        BY DEF EarPlace
      <3>2. pc[Ear] > EarPlace => Holders(1, "w") = {}
        BY DEF Drained, Listening
      <3> QED
        BY <2>1, <3>1, <3>2, <1>2
  <1>4. life[Ear] # "none"
    <2>1. CASE Ear = 1
      BY <2>1, <1>1, <1>2 DEF Alive, Typed, Unborn
    <2>2. CASE Ear = 2
      <3>1. Birth(2) = 2
        BY DEF Birth, Listening
      <3> QED
        BY <2>2, <3>1, <1>1 DEF Alive, Births, Family, Listening
    <2> QED
      BY <2>1, <2>2, <1>1
  <1>5. ~Running(Ear)
    <2>1. <<1, "r">> \in Owned(Ear, pc[Ear])
      BY <1>2, <1>3 DEF Listening, Ear, EarPlace, Owned, Both
    <2> QED
      BY <2>1, <1>1 DEF Holders, Alive, Holding, Family
  <1>6. life[Ear] # "exited"
    <2>1. pc[Ear] \in 1..Len(Script(Ear)) /\ Call(Ear).op # "fork"
      BY <1>2, <1>3 DEF Listening, Ear, EarPlace, Call, Script, Pipe3Child, Pipe4Parent, Pipe5Child,
         MakePipe, Fork, Close, ReadToEnd, Wait
    <2>2. Len(Script(Ear)) \in Nat
      BY <1>1, ScriptLengths DEF Alive, Typed, PipesTypeOK
    <2> QED
      BY <2>1, <2>2, <1>1 DEF Alive, Deaths
  <1> QED
    BY <1>1, <1>2, <1>4, <1>5, <1>6 DEF Running

(* Among relatives nobody writes without a reader unless somebody was      *)
(* killed.                                                                 *)
LEMMA FamilySigpipe ==
    ASSUME Alive, Drained, Waited, SigpipeOnlyWhenGone, Family, NEW p \in Process, BreaksPipe(p)
    PROVE  Killed /\ program \notin {"block", "shell"}
  <1>1. PICK o \in Writer : At(p, o)
    BY DEF BreaksPipe, Writer
  <1>2. /\ Call(p).op \in Writer /\ life[p] = "run" /\ CallFacts(p, pc[p]) /\ held[p] = Owned(p, pc[p])
        /\ pc[p] \in 1..Len(Script(p)) /\ size \in Nat
    BY <1>1, Placed, InACall DEF Running, Alive, Typed
  <1>3. Call(p).pipe \in Pipe /\ <<Call(p).pipe, "w">> \in held[p]
    BY <1>2 DEF CallFacts, Call
  <1>4. \A q \in Process : <<Call(p).pipe, "r">> \notin held[q]
    BY DEF BreaksPipe, Holders
  <1>5. /\ 1 \in Process /\ 2 \in Process /\ pc[1] \in 1..15 /\ pc[2] \in 1..15
        /\ life[1] \in {"none", "run", "exited", "killed", "SIGPIPE"}
    BY DEF Alive, Typed, PipesTypeOK, Process
  <1>6. \A q \in Process : life[q] \in {"killed", "SIGPIPE"} => Killed
    BY DEF Killed, SigpipeOnlyWhenGone, Family
  <1>7. program \in {"Pipe1", "Pipe2", "Pipe3", "Pipe4", "Pipe5", "block", "shell"}
    BY ProgramAssumption DEF Alive, Typed, PipesTypeOK, Family, Strangers
  <1>8. <<Call(p).pipe, "r">> \notin Owned(p, pc[p])
    BY <1>2, <1>4
  <1>9. program \notin {"Pipe1", "block", "shell"}
    <2>1. CASE program = "Pipe1"
      BY <2>1, <1>2, <1>8 DEF Owned, Both, Call, Script, Pipe1, MakePipe, Write, Read, Writer, Process
    <2>2. CASE program = "block"
      BY <2>2, <1>2, <1>8 DEF Owned, Both, Call, Script, BlockParent, BlockChild, MakePipe, Write, ReadFor,
         Fork, Wait, Writer, Process
    <2>3. CASE program = "shell"
      <3>1. CASE p \in {2, 4}
        BY <2>3, <3>1, <1>2, <1>8 DEF Owned, Both, Call, Script, ShellCommand, Write
      <3>2. CASE p \in {3, 5}
        BY <2>3, <3>2, <1>2 DEF Call, Script, ShellReader, Read, Writer
      <3>3. CASE p = 1
        BY <2>3, <3>3, <1>2 DEF Call, Script, ShellLoop, MakePipe, Fork, ForkReader, Close, WaitFor, Reap,
           Writer
      <3> QED
        BY <3>1, <3>2, <3>3 DEF Process
    <2> QED
      BY <2>1, <2>2, <2>3
  <1>10. Call(p).pipe = 1 /\ p \in {1, 2} /\ pc[1] > 2
    <2>1. ASSUME p # 1 PROVE p = 2 /\ pc[1] > 2
      <3>1. pc[1] > Birth(p) /\ Birth(p) \in Nat
        BY <2>1, <1>2 DEF Alive, Births, Family, Birth
      <3>2. Birth(p) = IF p = 2 THEN 2 ELSE 16
        BY <1>7, <1>9 DEF Birth
      <3> QED
        BY <3>1, <3>2, <1>5
    <2>2. ASSUME p = 1 PROVE pc[1] > 2
      <3>1. pc[1] # 1
        BY <2>2, <1>2, <1>3, <1>7, <1>9 DEF Owned
      <3>2. pc[1] # 2
        BY <2>2, <1>2, <1>7, <1>9 DEF Call, Script, Pipe2Parent, Pipe3Parent, Pipe4Parent, Pipe5Parent, Fork,
           Writer
      <3> QED
        BY <3>1, <3>2, <1>5
    <2>3. <<Call(p).pipe, "w">> \in Both(1)
      BY <1>2, <1>3, <1>7, <1>9 DEF Owned, Both
    <2> QED
      BY <2>1, <2>2, <2>3 DEF Both
  <1>11. CASE program = "Pipe2"
    <2>1. p = 2
      BY <1>2, <1>10, <1>11 DEF Call, Script, Pipe2Parent, MakePipe, Fork, Close, Read, Wait, Writer
    <2>2. <<1, "r">> \in Owned(1, pc[1])
      BY <1>10, <1>11 DEF Owned, Both
    <2>3. life[1] # "run"
      BY <2>2, <1>4, <1>5, <1>10 DEF Alive, Holding, Family, Running
    <2>4. life[1] # "none"
      BY <1>5, <1>10 DEF Alive, Typed, Unborn
    <2>5. life[1] # "exited"
      <3>1. pc[1] <= 7
        BY <2>1, <1>2, <1>5, <1>11 DEF Waited
      <3>2. pc[1] \in 1..Len(Script(1)) /\ Call(1).op # "fork"
        BY <3>1, <1>5, <1>10, <1>11 DEF Call, Script, Pipe2Parent, MakePipe, Fork, Close, Read, Wait
      <3>3. Len(Script(1)) \in Nat
        BY <1>11 DEF Script, Pipe2Parent
      <3> QED
        BY <3>2, <3>3, <1>5 DEF Alive, Deaths
    <2> QED
      BY <2>3, <2>4, <2>5, <1>5, <1>6, <1>11
  <1>12. CASE program \in {"Pipe3", "Pipe4", "Pipe5"}
    <2>1. Listening /\ program # "block"
      BY <1>12 DEF Listening
    <2>2. p # Ear
      BY <2>1, <1>2, Ears DEF Call
    <2>3. Holders(1, "r") = {}
      BY <1>4, <1>10 DEF Holders
    <2>4. Ear \in Process /\ life[Ear] \in {"killed", "SIGPIPE"}
      BY <2>1, <2>2, <2>3, <1>3, <1>10, EarOpen
    <2> QED
      BY <2>4, <1>6, <1>9, <1>12
  <1> QED
    BY <1>7, <1>9, <1>11, <1>12

(* What strangers write, they write to their line, after their door.       *)
LEMMA Writings ==
    ASSUME Strangers, NEW p \in Process, NEW x \in 1..Len(Script(p)), Script(p)[x].op \in Writer
    PROVE  Script(p)[x].pipe = Line(p) /\ x > Door(p)
  <1> USE DEF Strangers, Process, Script, Server, Client, Line, Door, Mkfifo, Open, Read, Write, Reply, Writer
  <1>1. CASE program = "half"
    BY <1>1 DEF HalfServer, HalfClient
  <1>2. CASE program = "full"
    BY <1>2 DEF FullServer, FullClient
  <1> QED
    BY <1>1, <1>2

(* SIGPIPE only after a death.                                             *)
LEMMA SigpipeStep ==
    ASSUME Alive, Drained, Waited, Met, SigpipeOnlyWhenGone, [PipesNext]_pipesVars
    PROVE  SigpipeOnlyWhenGone'
  <1>1. choice' = choice
    BY Lives DEF Process
  <1> SUFFICES ASSUME NEW p \in Process, life'[p] = "SIGPIPE"
               PROVE  IF Strangers THEN \E q \in Server \cup Client : life'[q] # "run" /\ life'[q] # "none" /\ q # p
                      ELSE Killed' /\ program \notin {"block", "shell"}
    BY <1>1, SameScripts DEF SigpipeOnlyWhenGone, Server, Client
  <1>2. ASSUME NEW q \in Server \cup Client, life[q] # "run", life[q] # "none"
        PROVE  life'[q] # "run" /\ life'[q] # "none"
    BY <1>2, Lives DEF Server, Client, Process
  <1>3. CASE life[p] = "SIGPIPE"
    BY <1>2, <1>3, KilledForGood DEF SigpipeOnlyWhenGone
  <1>4. CASE life[p] # "SIGPIPE"
    <2>1. BreaksPipe(p)
      BY <1>4, Breaks
    <2>2. CASE Family
      BY <2>1, <2>2, FamilySigpipe, KilledForGood DEF Family
    <2>3. CASE Strangers
      <3>1. PICK o \in Writer : At(p, o)
        BY <2>1 DEF BreaksPipe, Writer
      <3>2. Call(p).op \in Writer /\ life[p] = "run" /\ pc[p] \in 1..Len(Script(p))
        BY <3>1, Placed, InACall DEF Running, Alive, Typed
      <3>3. Call(p).pipe = Line(p) /\ pc[p] > Door(p)
        BY <3>2, <2>3, Writings DEF Call
      <3>4. p \in Server \cup Client
        BY <3>2, <2>3 DEF Alive, Births, Users
      <3>5. <<Line(p), "w">> \in held[p] /\ \A q \in Process : <<Line(p), "r">> \notin held[q]
        BY <2>1, <3>3 DEF BreaksPipe, Has, Holders
      <3>6. PICK q \in Peers(p) : <<Line(p), "r">> \in held[q] \/ life[q] \in Dead
        BY <2>3, <3>3, <3>4, <3>5 DEF Met
      <3>7. q \in Server \cup Client /\ q \in Process
        BY <3>6 DEF Peers, Server, Client, Process
      <3>8. life[q] \in Dead
        BY <3>5, <3>6, <3>7
      <3> QED
        BY <3>2, <3>7, <3>8, <1>2, <2>3 DEF Dead
    <2> QED
      BY <2>2, <2>3 DEF Family
  <1> QED
    BY <1>3, <1>4

(* What PipeServer2.c and PipeClient2.c call where, by enumeration.        *)
LEMMA FullCalls ==
    ASSUME program = "full", NEW p \in Process, NEW x \in 1..Len(Script(p))
    PROVE  LET c == Script(p)[x] IN
           /\ p \in Server => /\ c.op \in Writer <=> x = 6
                              /\ c.op \in Reader <=> x = 5
                              /\ c.op = "open" <=> x \in {3, 4}
                              /\ x = 1 => c = Mkfifo(1)
                              /\ x = 3 => c = Open(1, "r")
                              /\ x = 5 => c = Read(1, MAX_BUF_SIZE)
                              /\ x = 6 => c = Reply(2)
           /\ p \notin Server => /\ c.op \in Writer => x = 3 /\ c = Write(1, 1)
                                 /\ c.op \in Reader => x = 4 /\ c = Read(2, MAX_BUF_SIZE)
                                 /\ c.op # "mkfifo"
  BY DEF Process, Script, Strangers, Server, Client, Mkfifo, Open, Read, Write, Reply, Writer, Reader,
         FullServer, FullClient

(* Nobody writes or reads, but the last to close a pipe empties it.        *)
Emptied == /\ got' = got /\ messages' = messages
           /\ \A f \in Pipe : content'[f] = content[f] \/ content'[f] = <<>>

(* Where strangers meet, what is in a pipe and what was read changes only  *)
(* in write() and read(), or a pipe is emptied.                            *)
LEMMA StrangersFlow ==
    ASSUME Alive, [PipesNext]_pipesVars
    PROVE  Emptied \/ \E p \in Process : Writes(p) \/ Reads(p)
  <1>1. CASE flow' = flow
    BY <1>1 DEF flow, Emptied
  <1>2. ASSUME NEW p \in Process, Opens(p) PROVE Emptied
    <2>1. content \in [Pipe -> Seq(Byte)]
      BY DEF Alive, Typed, PipesTypeOK, Byte
    <2> QED
      BY <1>2, <2>1 DEF Opens, Emptied
  <1>3. CASE UNCHANGED pipesVars
    BY <1>1, <1>3 DEF pipesVars
  <1>4. ASSUME NEW p \in Process, Start(p) \/ Kill(p) \/ Step(p), ~Opens(p), ~Writes(p), ~Reads(p)
        PROVE  flow' = flow
    BY <1>4 DEF Start, Kill, Step, Exit, MakesPipe, Forks, ForkFails, Closes, Reaps, WaitsAny, WaitsFor,
                GoesOn, BreaksPipe, EndOfFile, BadDescriptor, MakesFifo, OpenFails
  <1> QED
    BY <1>1, <1>2, <1>3, <1>4 DEF PipesNext

(* What a write() of the two programs puts into a FIFO.                    *)
LEMMA FullWrites ==
    ASSUME program = "full", Alive, NEW p \in Process, Writes(p)
    PROVE  /\ Running(p) /\ got' = got /\ p \in Server \cup Client
           /\ messages[p] = 0 /\ messages' = [messages EXCEPT ![p] = 1]
           /\ p \in Client => content' = [content EXCEPT ![1] = @ \o Bytes(<<p, 1>>, 1)]
           /\ p \in Server => /\ pc[p] = 6
                              /\ content' = [content EXCEPT ![2] = @ \o Bytes(Written(p), 1)]
                              /\ Written(p) = IF got[p] = <<>> THEN Garbage ELSE got[p][1]
  <1>1. PICK b \in Nat :
              /\ content' = [content EXCEPT ![Call(p).pipe] = @ \o Bytes(Written(p), b)]
              /\ \/ /\ b = Call(p).n - done[p] /\ done' = [done EXCEPT ![p] = 0]
                    /\ messages' = [messages EXCEPT ![p] = @ + 1] /\ Returns(p)
                 \/ ~Atomic(Call(p).n)
              /\ got' = got /\ Call(p).op \in Writer /\ Running(p) /\ pc[p] <= Len(Script(p))
    BY WriteEffect
  <1>2. pc[p] \in 1..Len(Script(p))
    BY <1>1, InACall DEF Alive, Typed
  <1>3. /\ p \in Server => pc[p] = 6 /\ Call(p) = Reply(2)
        /\ p \notin Server => pc[p] = 3 /\ Call(p) = Write(1, 1)
    BY <1>1, <1>2, FullCalls DEF Call
  <1>4. p \in Server \cup Client
    BY <1>1 DEF Alive, Births, Strangers, Users, Running
  <1>5. Call(p).n = 1 /\ 1 <= PIPE_BUF /\ Atomic(1) /\ 3 \notin Server
    BY <1>3, PipeSizeAssumption DEF Reply, Write, Atomic, Server
  <1>6. done[p] = 0
    <2>1. done[p] \in Nat
      BY DEF Alive, Typed, PipesTypeOK
    <2> QED
      BY <1>5, <2>1 DEF Alive, Typed, Partial, PartOf
  <1>7. messages[p] = 0 /\ messages \in [Process -> 0..3]
    <2>1. messages \in [Process -> 0..3]
      BY DEF Alive, Typed, PipesTypeOK
    <2>2. Turn(p, pc[p]) = 0
      BY <1>3 DEF Turn, FirstWrite
    <2>3. messages[p] <= Turn(p, pc[p])
      BY DEF Alive, Typed, InTurn
    <2> QED
      BY <2>1, <2>2, <2>3
  <1>8. messages' = [messages EXCEPT ![p] = 1] /\ b = 1
    BY <1>1, <1>5, <1>6, <1>7
  <1>9. /\ p \in Server => Call(p).pipe = 2 /\ Call(p).op = "reply"
        /\ p \notin Server => Call(p).pipe = 1 /\ Call(p).op = "write"
    BY <1>3 DEF Reply, Write
  <1>10. p \in Client => p \notin Server
    BY DEF Server, Client
  <1>11. p \in Client => Written(p) = <<p, 1>>
    BY <1>7, <1>9, <1>10 DEF Written
  <1>12. p \in Server => Written(p) = IF got[p] = <<>> THEN Garbage ELSE got[p][1]
    BY <1>9 DEF Written
  <1>13. p \in Client => content' = [content EXCEPT ![1] = @ \o Bytes(<<p, 1>>, 1)]
    BY <1>1, <1>8, <1>9, <1>10, <1>11
  <1>14. p \in Server => content' = [content EXCEPT ![2] = @ \o Bytes(Written(p), 1)]
    BY <1>1, <1>8, <1>9
  <1> QED
    BY <1>1, <1>3, <1>4, <1>7, <1>8, <1>12, <1>13, <1>14

(* A byte at the end of a sequence.                                        *)
LEMMA OneMore ==
    ASSUME NEW S, NEW s \in Seq(S), NEW b \in S
    PROVE  s \o Bytes(b, 1) \in Seq(S) /\ Len(s \o Bytes(b, 1)) = Len(s) + 1
  <1>1. Bytes(b, 1) \in Seq(S) /\ Len(Bytes(b, 1)) = 1
    BY DEF Bytes
  <1>2. \A t \in Seq(S) : s \o t \in Seq(S) /\ Len(s \o t) = Len(s) + Len(t)
    BY ConcatProperties
  <1> QED
    BY <1>1, <1>2

(* What is read is of the kind of what is in the pipe.                     *)
LEMMA Handing ==
    ASSUME Alive, NEW p \in Process, Reads(p), NEW S,
           content[Call(p).pipe] \in Seq(S), got[p] \in Seq(S)
    PROVE  got'[p] \in Seq(S) /\ content'[Call(p).pipe] \in Seq(S)
  <1>1. PICK b \in 1..Len(content[Call(p).pipe]) :
              /\ got' = [got EXCEPT ![p] = @ \o SubSeq(content[Call(p).pipe], 1, b)]
              /\ content' = [content EXCEPT ![Call(p).pipe] = SubSeq(@, b + 1, Len(@))]
              /\ Call(p).pipe \in Pipe
    BY ReadEffect
  <1> DEFINE s == content[Call(p).pipe]
  <1>2. got \in [Process -> Seq(Byte)] /\ content \in [Pipe -> Seq(Byte)]
    BY DEF Alive, Typed, PipesTypeOK, Byte
  <1>3. /\ got'[p] = got[p] \o SubSeq(s, 1, b) /\ content'[Call(p).pipe] = SubSeq(s, b + 1, Len(s))
    BY <1>1, <1>2
  <1>4. s \in Seq(S) /\ Len(s) \in Nat /\ b \in 1..Len(s)
    BY LenProperties
  <1> HIDE DEF s
  <1>5. SubSeq(s, 1, b) \in Seq(S) /\ SubSeq(s, b + 1, Len(s)) \in Seq(S)
    BY <1>4, SubSeqProperties
  <1>6. got[p] \o SubSeq(s, 1, b) \in Seq(S)
    BY <1>5, ConcatProperties
  <1> QED
    BY <1>3, <1>5, <1>6

(* What a read() of the two programs takes out of a FIFO.                  *)
LEMMA FullReads ==
    ASSUME program = "full", Alive, NEW p \in Process, Reads(p)
    PROVE  /\ Running(p) /\ p \in Server \cup Client /\ messages' = messages
           /\ pc[p] = IF p \in Server THEN 5 ELSE 4
           /\ Call(p).pipe = IF p \in Server THEN 1 ELSE 2
           /\ got' = [got EXCEPT ![p] = got'[p]] /\ got'[p] # <<>>
           /\ content' = [content EXCEPT ![Call(p).pipe] = content'[Call(p).pipe]]
           /\ Len(got'[p]) + Len(content'[Call(p).pipe]) = Len(got[p]) + Len(content[Call(p).pipe])
  <1>1. PICK b \in 1..Len(content[Call(p).pipe]) :
              /\ got' = [got EXCEPT ![p] = @ \o SubSeq(content[Call(p).pipe], 1, b)]
              /\ content' = [content EXCEPT ![Call(p).pipe] = SubSeq(@, b + 1, Len(@))]
              /\ Len(got'[p]) = Len(got[p]) + b
              /\ Len(content'[Call(p).pipe]) = Len(content[Call(p).pipe]) - b
              /\ Call(p).pipe \in Pipe /\ Call(p).op \in Reader /\ Running(p)
              /\ pc[p] <= Len(Script(p)) /\ messages' = messages
    BY ReadEffect
  <1>2. pc[p] \in 1..Len(Script(p))
    BY <1>1, InACall DEF Alive, Typed
  <1>3. /\ p \in Server => pc[p] = 5 /\ Call(p) = Read(1, MAX_BUF_SIZE)
        /\ p \notin Server => pc[p] = 4 /\ Call(p) = Read(2, MAX_BUF_SIZE)
    BY <1>1, <1>2, FullCalls DEF Call
  <1>4. p \in Server \cup Client
    BY <1>1 DEF Alive, Births, Strangers, Users, Running
  <1>5. Call(p).pipe = IF p \in Server THEN 1 ELSE 2
    BY <1>3 DEF Read
  <1>6. got \in [Process -> Seq(Byte)] /\ content \in [Pipe -> Seq(Byte)]
    BY DEF Alive, Typed, PipesTypeOK, Byte
  <1>7. Len(got[p]) \in Nat /\ Len(content[Call(p).pipe]) \in Nat
    BY <1>1, <1>6, LenProperties
  <1>8. got' = [got EXCEPT ![p] = got'[p]] /\ content' = [content EXCEPT ![Call(p).pipe] = content'[Call(p).pipe]]
    BY <1>1, <1>6
  <1>9. got'[p] # <<>>
    <2>1. Len(got'[p]) # 0
      BY <1>1, <1>7
    <2> QED
      BY <2>1
  <1>10. Len(got'[p]) + Len(content'[Call(p).pipe]) = Len(got[p]) + Len(content[Call(p).pipe])
    <2> DEFINE g1 == Len(got'[p])
               c1 == Len(content'[Call(p).pipe])
               g0 == Len(got[p])
               c0 == Len(content[Call(p).pipe])
    <2>1. g0 \in Nat /\ c0 \in Nat /\ g1 = g0 + b /\ c1 = c0 - b
      BY <1>1, <1>7
    <2> HIDE DEF g0, c0, g1, c1
    <2>2. g1 + c1 = g0 + c0
      BY <2>1
    <2> QED
      BY <2>2 DEF g0, c0, g1, c1
  <1> QED
    BY <1>1, <1>3, <1>4, <1>5, <1>8, <1>9, <1>10

(* What a word is, remains one.                                            *)
LEMMA SaidForGood ==
    ASSUME program = "full", Alive, [PipesNext]_pipesVars PROVE Said \subseteq Said'
  <1>1. ASSUME NEW c \in Client, messages[c] = 1 PROVE messages'[c] = 1
    <2>1. c \in Process /\ messages \in [Process -> 0..3]
      BY DEF Alive, Typed, PipesTypeOK, Client, Process
    <2>2. ASSUME NEW p \in Process, Writes(p) PROVE messages'[c] = 1
      BY <1>1, <2>1, <2>2, FullWrites
    <2>3. ASSUME NEW p \in Process, Reads(p) PROVE messages'[c] = 1
      BY <1>1, <2>3, FullReads
    <2> QED
      BY <1>1, <2>2, <2>3, StrangersFlow DEF Emptied
  <1> QED
    BY <1>1 DEF Said

(* Answers are words, or what was in the buffer.                           *)
LEMMA AnswersStep ==
    ASSUME Alive, Answers, [PipesNext]_pipesVars PROVE Answers'
  <1>1. choice' = choice
    BY Lives DEF Process
  <1> SUFFICES ASSUME program = "full"
               PROVE  /\ content'[1] \in Seq(Said') /\ content'[2] \in Seq(Said' \cup {Garbage})
                      /\ \A q \in Server : got'[q] \in Seq(Said')
                      /\ \A q \in Client : got'[q] \in Seq(Said' \cup {Garbage})
    BY <1>1, SameScripts DEF Answers, Server, Client, Garbage
  <1> DEFINE A == Said'
             B == Said' \cup {Garbage}
  <1>2. Said \subseteq A /\ Said \cup {Garbage} \subseteq B /\ A \subseteq B
    BY SaidForGood
  <1>3. /\ content[1] \in Seq(Said) /\ content[2] \in Seq(Said \cup {Garbage})
        /\ \A q \in Server : got[q] \in Seq(Said)
        /\ \A q \in Client : got[q] \in Seq(Said \cup {Garbage})
    BY DEF Answers
  <1>4. /\ content[1] \in Seq(A) /\ content[2] \in Seq(B)
        /\ \A q \in Server : got[q] \in Seq(A)
        /\ \A q \in Client : got[q] \in Seq(B)
    <2> HIDE DEF A, B
    <2> QED
      BY <1>2, <1>3, SeqMonotonic
  <1>5. /\ got \in [Process -> Seq(Byte)] /\ content \in [Pipe -> Seq(Byte)] /\ 1 \in Pipe /\ 2 \in Pipe
        /\ Server \cup Client \subseteq Process /\ \A q \in Server : q \notin Client
        /\ messages \in [Process -> 0..3]
    <2>1. 1 \in Pipe /\ 2 \in Pipe /\ Server \cup Client \subseteq Process /\ \A q \in Server : q \notin Client
      BY DEF Pipe, Server, Client, Process
    <2>2. got \in [Process -> Seq(Byte)] /\ content \in [Pipe -> Seq(Byte)]
      BY DEF Alive, Typed, PipesTypeOK, Byte
    <2>3. messages \in [Process -> 0..3]
      BY DEF Alive, Typed, PipesTypeOK
    <2> QED
      BY <2>1, <2>2, <2>3
  <1>6. CASE Emptied
    <2>1. <<>> \in Seq(A) /\ <<>> \in Seq(B)
      BY EmptySeq
    <2> QED
      BY <1>4, <1>5, <1>6, <2>1 DEF Emptied
  <1>7. ASSUME NEW p \in Process, Writes(p)
        PROVE  /\ content'[1] \in Seq(A) /\ content'[2] \in Seq(B) /\ got' = got
    <2>1. CASE p \in Client
      <3>1. content' = [content EXCEPT ![1] = @ \o Bytes(<<p, 1>>, 1)] /\ got' = got
            /\ messages' = [messages EXCEPT ![p] = 1]
        BY <1>7, <2>1, FullWrites
      <3>2. <<p, 1>> \in A
        BY <3>1, <2>1, <1>5 DEF Said, Client
      <3> HIDE DEF A, B
      <3>3. content[1] \o Bytes(<<p, 1>>, 1) \in Seq(A)
        BY <3>2, <1>4, OneMore
      <3> QED
        BY <3>1, <3>3, <1>4, <1>5
    <2>2. CASE p \in Server
      <3>1. content' = [content EXCEPT ![2] = @ \o Bytes(Written(p), 1)] /\ got' = got
            /\ Written(p) = IF got[p] = <<>> THEN Garbage ELSE got[p][1]
        BY <1>7, <2>2, FullWrites
      <3>2. got[p] # <<>> => got[p][1] \in A
        <4> HIDE DEF A
        <4>1. got[p] \in Seq(A)
          BY <2>2, <1>4
        <4>2. got[p] # <<>> => Len(got[p]) \in Nat \ {0}
          BY <4>1, EmptySeq
        <4> QED
          BY <4>1, <4>2, ElementOfSeq
      <3>3. Written(p) \in B
        BY <3>1, <3>2
      <3> HIDE DEF A, B
      <3>4. content[2] \o Bytes(Written(p), 1) \in Seq(B)
        BY <3>3, <1>4, OneMore
      <3> QED
        BY <3>1, <3>4, <1>4, <1>5
    <2> QED
      BY <1>7, <2>1, <2>2, FullWrites
  <1>8. ASSUME NEW p \in Process, Reads(p)
        PROVE  /\ content'[1] \in Seq(A) /\ content'[2] \in Seq(B)
               /\ \A q \in Server : got'[q] \in Seq(A)
               /\ \A q \in Client : got'[q] \in Seq(B)
    <2>1. /\ p \in Server \cup Client /\ Call(p).pipe = IF p \in Server THEN 1 ELSE 2
          /\ got' = [got EXCEPT ![p] = got'[p]]
          /\ content' = [content EXCEPT ![Call(p).pipe] = content'[Call(p).pipe]]
      BY <1>8, FullReads
    <2> HIDE DEF A, B
    <2>2. CASE p \in Server
      <3>1. got'[p] \in Seq(A) /\ content'[1] \in Seq(A)
        BY <1>4, <1>8, <2>1, <2>2, Handing
      <3>2. content'[2] = content[2] /\ \A q \in Process \ {p} : got'[q] = got[q]
        BY <2>1, <2>2, <1>5
      <3> QED
        BY <3>1, <3>2, <2>2, <1>4, <1>5
    <2>3. CASE p \in Client
      <3>1. got'[p] \in Seq(B) /\ content'[2] \in Seq(B)
        BY <1>4, <1>5, <1>8, <2>1, <2>3, Handing
      <3>2. content'[1] = content[1] /\ \A q \in Process \ {p} : got'[q] = got[q]
        BY <2>1, <2>3, <1>5
      <3> QED
        BY <3>1, <3>2, <2>3, <1>4, <1>5
    <2> QED
      BY <2>1, <2>2, <2>3
  <1>9. CASE \E p \in Process : Writes(p)
    BY <1>4, <1>7, <1>9
  <1>10. CASE \E p \in Process : Reads(p)
    BY <1>8, <1>10
  <1> QED
    BY <1>6, <1>9, <1>10, StrangersFlow

(* How the server goes on.                                                 *)
LEMMA ServerGoes ==
    ASSUME program = "full", Alive, [PipesNext]_pipesVars, NEW q \in Server, pc'[q] # pc[q]
    PROVE  /\ pc[q] = 1 => MakesFifo(q) /\ Call(q) = Mkfifo(1)
           /\ pc[q] = 3 => /\ Call(q) = Open(1, "r")
                           /\ \/ OpenFails(q) \/ Opens(q)
                              \/ \E p \in Process : Opens(p) /\ Call(p).pipe = 1 /\ Call(p).end = "w" /\ Has(q, "r")
           /\ pc[q] = 5 => /\ Call(q) = Read(1, MAX_BUF_SIZE)
                           /\ Reads(q) \/ EndOfFile(q) \/ BadDescriptor(q)
  <1>1. q \in Process
    BY DEF Server, Process
  <1>2. \/ Step(q)
        \/ \E p \in Process : Opens(p) /\ q \in Opening(Call(p).pipe, Other(Call(p).end))
    BY <1>1, GoesBy
  <1>3. At(q, Call(q).op)
    BY <1>1, <1>2, OnlyMoves DEF Opening, At
  <1>4. pc[q] \in 1..Len(Script(q))
    BY <1>1, <1>3, Placed, InACall DEF Alive, Typed
  <1>5. /\ pc[q] = 1 => Call(q) = Mkfifo(1)
        /\ pc[q] = 3 => Call(q) = Open(1, "r")
        /\ pc[q] = 5 => Call(q) = Read(1, MAX_BUF_SIZE)
    BY <1>1, <1>4, FullCalls DEF Call
  <1>6. ASSUME NEW p \in Process, Opens(p), q \in Opening(Call(p).pipe, Other(Call(p).end))
        PROVE  /\ Call(q).op = "open" /\ Has(q, Call(q).end)
               /\ Call(q).pipe = Call(p).pipe /\ Call(q).end = Other(Call(p).end) /\ Call(p).end \in {"r", "w"}
    <2>1. Call(q) = Open(Call(p).pipe, Other(Call(p).end)) /\ Has(q, Other(Call(p).end))
      BY <1>6 DEF Opening
    <2>2. At(p, "open")
      BY <1>6 DEF Opens
    <2>3. Call(p).op = "open" /\ CallFacts(p, pc[p])
      BY <2>2, Placed
    <2>4. <<Call(p).pipe, Call(p).end>> \in Side(p)
      BY <2>3 DEF CallFacts, Call
    <2>5. Call(p).end \in {"r", "w"}
      BY <2>4 DEF Side
    <2> QED
      BY <2>1, <2>5 DEF Open
  <1>7. CASE pc[q] = 1
    <2>1. Call(q).op = "mkfifo"
      BY <1>5, <1>7 DEF Mkfifo
    <2>2. Step(q)
      BY <1>2, <1>6, <2>1
    <2>3. MakesFifo(q)
      BY <2>1, <2>2, <1>3 DEF Step, Exit, MakesPipe, Forks, ForkFails, Closes, Reaps, WaitsAny, WaitsFor, GoesOn,
         Writes, BreaksPipe, Reads, EndOfFile, BadDescriptor, OpenFails, Opens, At, Reading
    <2> QED
      BY <2>3, <1>5, <1>7
  <1>8. CASE pc[q] = 3
    <2>1. Call(q).op = "open" /\ Call(q).pipe = 1 /\ Call(q).end = "r"
      BY <1>5, <1>8 DEF Open
    <2>2. Step(q) => OpenFails(q) \/ Opens(q)
      BY <2>1, <1>3 DEF Step, Exit, MakesPipe, Forks, ForkFails, Closes, Reaps, WaitsAny, WaitsFor, GoesOn,
         Writes, BreaksPipe, Reads, EndOfFile, BadDescriptor, MakesFifo, At, Reading
    <2>3. ASSUME NEW p \in Process, Opens(p), q \in Opening(Call(p).pipe, Other(Call(p).end))
          PROVE  Call(p).pipe = 1 /\ Call(p).end = "w" /\ Has(q, "r")
      BY <1>6, <2>1, <2>3 DEF Other
    <2> QED
      BY <1>2, <1>5, <1>8, <2>2, <2>3
  <1>9. CASE pc[q] = 5
    <2>1. Call(q).op = "read"
      BY <1>5, <1>9 DEF Read
    <2>2. Step(q)
      BY <1>2, <1>6, <2>1
    <2>3. Reads(q) \/ EndOfFile(q) \/ BadDescriptor(q)
      BY <2>1, <2>2, <1>1, OnlyMoves
    <2> QED
      BY <2>3, <1>5, <1>9
  <1> QED
    BY <1>7, <1>8, <1>9

(* A server that is past its first open() has it.                          *)
LEMMA ReadyStep ==
    ASSUME Alive, Ready, [PipesNext]_pipesVars PROVE Ready'
  <1>1. choice' = choice
    BY Lives DEF Process
  <1> SUFFICES ASSUME program = "full", NEW q \in Server
               PROVE  /\ pc'[q] > 1 => 1 \in fifos'
                      /\ pc'[q] > 3 /\ life'[q] = "run" => <<1, "r">> \in held'[q]
    BY <1>1, SameScripts DEF Ready, Server, Running
  <1>2. /\ pc[q] > 1 => 1 \in fifos
        /\ pc[q] > 3 /\ Running(q) => <<1, "r">> \in held[q]
    BY DEF Ready
  <1>3. q \in Process /\ pc[q] \in 1..15 /\ held \in [Process -> SUBSET Ends] /\ Strangers
    <2>1. q \in Process /\ Strangers
      BY DEF Server, Process, Strangers
    <2>2. pc \in [Process -> 1..15] /\ held \in [Process -> SUBSET Ends]
      BY DEF Alive, Typed, PipesTypeOK
    <2> QED
      BY <2>1, <2>2
  <1>4. pc'[q] = pc[q] \/ pc'[q] = pc[q] + 1
    BY <1>3, Lives
  <1>5. /\ fifos \subseteq fifos'
        /\ \/ held'[q] = held[q]
           \/ held'[q] = {} /\ life'[q] \in Dead
           \/ Opens(q) /\ held'[q] = held[q] \cup {<<Call(q).pipe, Call(q).end>>}
    BY <1>3, StrangersHold
  <1>6. ASSUME pc'[q] > 1 PROVE 1 \in fifos'
    <2>1. CASE pc[q] > 1
      BY <2>1, <1>2, <1>5
    <2>2. CASE ~(pc[q] > 1)
      <3>1. MakesFifo(q) /\ Call(q) = Mkfifo(1)
        BY <2>2, <1>3, <1>4, <1>6, ServerGoes
      <3> QED
        BY <3>1 DEF MakesFifo, Mkfifo
    <2> QED
      BY <2>1, <2>2
  <1>7. ASSUME pc'[q] > 3, life'[q] = "run" PROVE <<1, "r">> \in held'[q]
    <2>1. CASE <<1, "r">> \in held[q]
      BY <2>1, <1>5, <1>7 DEF Dead
    <2>2. CASE pc[q] > 3
      <3>1. life[q] = "run"
        <4>1. life[q] # "none"
          BY <2>2, <1>3 DEF Alive, Typed, Unborn
        <4> QED
          BY <4>1, <1>3, <1>7, Lives
      <3> QED
        BY <3>1, <2>1, <2>2, <1>2 DEF Running
    <2>3. CASE ~(pc[q] > 3) /\ <<1, "r">> \notin held[q]
      <3>1. pc[q] = 3 /\ pc'[q] # pc[q]
        BY <2>3, <1>3, <1>4, <1>7
      <3>2. /\ Call(q).pipe = 1 /\ Call(q).end = "r" /\ 1 \in fifos
            /\ OpenFails(q) \/ Opens(q) \/ Has(q, "r")
        BY <3>1, <1>2, ServerGoes DEF Open
      <3>3. Opens(q)
        BY <3>2, <2>3 DEF OpenFails, Has
      <3>4. held' = [held EXCEPT ![q] = @ \cup {<<1, "r">>}]
        BY <3>2, <3>3 DEF Opens
      <3> QED
        BY <3>4, <1>3
    <2> QED
      BY <2>1, <2>2, <2>3
  <1> QED
    BY <1>6, <1>7

(* A client that is alone is the only one to write to the server.          *)
LEMMA OnlyWriter ==
    ASSUME program = "full", Alive, NEW c \in Client, Alone(c), NEW q \in Process, Running(q),
           <<1, "w">> \in Side(q) \/ q \in Client
    PROVE  q = c
  <1>1. q \in Server \cup Client
    BY DEF Alive, Births, Strangers, Users, Running
  <1>2. q \notin Server
    BY DEF Side, Server, Client
  <1> QED
    BY <1>1, <1>2 DEF Alone, Running

(* The server does not come past its first open() without the client.      *)
LEMMA ServerMeets ==
    ASSUME program = "full", Alive, Ready, NEW c \in Client, Alone(c), [PipesNext]_pipesVars,
           NEW q \in Server, pc[q] = 3, pc'[q] # pc[q]
    PROVE  <<1, "w">> \in held'[c]
  <1>1. /\ Call(q) = Open(1, "r")
        /\ \/ OpenFails(q) \/ Opens(q)
           \/ \E p \in Process : Opens(p) /\ Call(p).pipe = 1 /\ Call(p).end = "w" /\ Has(q, "r")
    BY ServerGoes
  <1>2. Call(q).pipe = 1 /\ Call(q).end = "r"
    BY <1>1 DEF Open
  <1>3. ~OpenFails(q)
    BY <1>2 DEF OpenFails, Ready
  <1>4. held \in [Process -> SUBSET Ends] /\ c \in Process /\ q \in Process /\ c # q
    BY SMTT(30) DEF Alive, Typed, PipesTypeOK, Server, Client, Process
  <1>5. CASE Opens(q)
    <2>1. Holders(1, "w") # {}
      BY <1>2, <1>5 DEF Opens, Other
    <2>2. PICK p \in Process : <<1, "w">> \in held[p]
      BY <2>1 DEF Holders
    <2>3. Running(p) /\ <<1, "w">> \in Side(p)
      BY <2>2 DEF Alive, Holding, Strangers
    <2>4. p = c
      BY <2>3, OnlyWriter
    <2>5. held' = [held EXCEPT ![q] = @ \cup {<<1, "r">>}]
      BY <1>2, <1>5 DEF Opens
    <2> QED
      BY <2>2, <2>4, <2>5, <1>4
  <1>6. ASSUME NEW p \in Process, Opens(p), Call(p).pipe = 1, Call(p).end = "w"
        PROVE  <<1, "w">> \in held'[c]
    <2>1. At(p, "open")
      BY <1>6 DEF Opens
    <2>2. Call(p).op = "open" /\ CallFacts(p, pc[p]) /\ Running(p)
      BY <2>1, Placed
    <2>3. <<Call(p).pipe, Call(p).end>> \in Side(p)
      BY <2>2 DEF CallFacts, Call
    <2>4. p = c
      BY <2>2, <2>3, <1>6, OnlyWriter
    <2>5. held' = [held EXCEPT ![p] = @ \cup {<<1, "w">>}]
      BY <1>6 DEF Opens
    <2> QED
      BY <2>4, <2>5, <1>4
  <1> QED
    BY <1>1, <1>3, <1>5, <1>6

(* Nor does it come past its read() without a word.                        *)
LEMMA ServerHears ==
    ASSUME program = "full", Alive, Ready, Dialogue, NEW c \in Client, Alone(c), [PipesNext]_pipesVars,
           NEW q \in Server, pc[q] = 5, pc'[q] # pc[q]
    PROVE  got'[q] # <<>> \/ life[c] \in Dead
  <1>1. Call(q) = Read(1, MAX_BUF_SIZE) /\ (Reads(q) \/ EndOfFile(q) \/ BadDescriptor(q))
    BY ServerGoes
  <1>2. Call(q).op = "read" /\ Call(q).pipe = 1 /\ q \in Process /\ c \in Process
    BY <1>1 DEF Read, Server, Client, Process
  <1>3. CASE Reads(q)
    BY <1>2, <1>3, FullReads
  <1>4. CASE EndOfFile(q)
    <2>1. ~ReadsEnough(q)
      BY <1>2 DEF ReadsEnough, At
    <2>2. <<1, "w">> \notin held[c]
      BY <2>1, <1>2, <1>4 DEF EndOfFile, Holders
    <2> QED
      <3>1. Meeting(c)
        BY DEF Dialogue
      <3> QED
        BY <3>1, <2>2 DEF Meeting, Gone
  <1>5. CASE BadDescriptor(q)
    BY <1>2, <1>5 DEF BadDescriptor, At, Ready, Has
  <1> QED
    BY <1>1, <1>3, <1>4, <1>5

(* What has been read remains.                                             *)
LEMMA GotForGood ==
    ASSUME program = "full", Alive, [PipesNext]_pipesVars, NEW q \in Process, got[q] # <<>>
    PROVE  got'[q] # <<>>
  <1>1. got \in [Process -> Seq(Byte)]
    BY DEF Alive, Typed, PipesTypeOK, Byte
  <1>2. ASSUME NEW p \in Process, Reads(p) PROVE got'[q] # <<>>
    <2>1. got' = [got EXCEPT ![p] = got'[p]] /\ got'[p] # <<>>
      BY <1>2, FullReads
    <2>2. CASE p = q
      BY <2>1, <2>2
    <2>3. CASE p # q
      <3>1. got'[q] = got[q]
        BY <2>1, <2>3, <1>1
      <3> QED
        BY <3>1
    <2> QED
      BY <2>2, <2>3
  <1> QED
    BY <1>2, StrangersFlow, FullWrites DEF Emptied

(* A client that is alone with its server hears its own word.              *)
LEMMA AnsweredStep ==
    ASSUME program = "full", Alive, Answers, Dialogue, [PipesNext]_pipesVars,
           NEW c \in Client, Alone(c), Answered(c)
    PROVE  Answered(c)'
  <1> DEFINE A == {<<c, 1>>}
             in == Len(content[2])
             has == Len(got[c])
  <1>1. /\ c \in Process /\ c \notin Server /\ 2 \in Pipe /\ 1 \in Pipe /\ Server \subseteq Process
        /\ \A q \in Server : 5 - q \in Server /\ 5 - q # c /\ 5 - q \in Process
        /\ \A q, p \in Server : q # p => 5 - q = p
    BY DEF Server, Client, Process, Pipe
  <1>2. got \in [Process -> Seq(Byte)] /\ content \in [Pipe -> Seq(Byte)] /\ got[c] \in Seq(A)
    BY DEF Alive, Typed, PipesTypeOK, Byte, Answered
  <1>3. messages \in [Process -> 0..3] /\ in \in Nat /\ has \in Nat
    <2>1. messages \in [Process -> 0..3]
      BY DEF Alive, Typed, PipesTypeOK
    <2>2. content[2] \in Seq(Byte) /\ got[c] \in Seq(Byte)
      BY <1>1, <1>2
    <2> QED
      BY <2>1, <2>2, LenProperties
  <1>4. /\ life[c] \in Dead => life'[c] \in Dead
        /\ \A q \in Server : life'[q] = "none" => life[q] = "none"
    BY <1>1, Lives DEF Dead
  <1>5. /\ has <= 1
        /\ life[c] \notin Dead => /\ content[2] \in Seq(A)
                                  /\ \A q \in Server : life[q] = "none" => in + has <= messages[5 - q]
    BY DEF Answered, Gone
  <1> SUFFICES /\ got'[c] \in Seq(A) /\ Len(got'[c]) <= 1
               /\ life'[c] \notin Dead => /\ content'[2] \in Seq(A)
                                          /\ \A q \in Server : life'[q] = "none" =>
                                                 Len(content'[2]) + Len(got'[c]) <= messages'[5 - q]
    BY DEF Answered, Gone, Server, Dead
  <1>6. CASE Emptied
    <2>1. got' = got /\ messages' = messages /\ (content'[2] = content[2] \/ content'[2] = <<>>)
      BY <1>1, <1>6 DEF Emptied
    <2>2. <<>> \in Seq(A) /\ Len(<<>>) = 0
      BY EmptySeq
    <2>3. life'[c] \notin Dead => content'[2] \in Seq(A)
      BY <2>1, <2>2, <1>4, <1>5
    <2>4. Len(content'[2]) <= in /\ Len(content'[2]) \in Nat
      BY <2>1, <2>2, <1>3
    <2> DEFINE in1 == Len(content'[2])
    <2> HIDE DEF in, has, in1
    <2>5. \A q \in Server : life'[c] \notin Dead /\ life'[q] = "none" => in1 + has <= messages[5 - q]
      <3>1. ASSUME NEW q \in Server, in + has <= messages[5 - q] PROVE in1 + has <= messages[5 - q]
        <4>1. messages[5 - q] \in Nat
          BY <1>1, <1>3
        <4> QED
          BY <4>1, <3>1, <2>4, <1>3 DEF in1
      <3> QED
        BY <3>1, <1>4, <1>5
    <2> QED
      BY <2>1, <2>3, <2>5, <1>2, <1>5 DEF has, in1
  <1>7. ASSUME NEW p \in Process, Writes(p)
        PROVE  /\ got' = got
               /\ life'[c] \notin Dead => /\ content'[2] \in Seq(A)
                                          /\ \A q \in Server : life'[q] = "none" =>
                                                 Len(content'[2]) + has <= messages'[5 - q]
    <2>1. CASE p \in Client
      <3>1. p = c
        BY <2>1, <1>7, OnlyWriter, FullWrites
      <3>2. got' = got /\ messages' = [messages EXCEPT ![c] = 1] /\ content'[2] = content[2]
        <4>1. /\ got' = got /\ messages' = [messages EXCEPT ![p] = 1]
              /\ content' = [content EXCEPT ![1] = @ \o Bytes(<<p, 1>>, 1)]
          BY <2>1, <1>7, FullWrites
        <4> QED
          BY <3>1, <4>1, <1>1, <1>2
      <3>3. \A q \in Server : messages'[5 - q] = messages[5 - q]
        BY <3>2, <1>1, <1>3
      <3> QED
        BY <3>2, <3>3, <1>4, <1>5
    <2>2. CASE p \in Server
      <3>1. /\ Running(p) /\ got' = got /\ messages[p] = 0 /\ messages' = [messages EXCEPT ![p] = 1]
            /\ pc[p] = 6 /\ content' = [content EXCEPT ![2] = @ \o Bytes(Written(p), 1)]
            /\ Written(p) = IF got[p] = <<>> THEN Garbage ELSE got[p][1]
        BY <2>2, <1>7, FullWrites
      <3> SUFFICES ASSUME life'[c] \notin Dead
                   PROVE  /\ content'[2] \in Seq(A)
                          /\ \A q \in Server : life'[q] = "none" => Len(content'[2]) + has <= messages'[5 - q]
        BY <3>1
      <3>2. life[c] \notin Dead
        BY <1>4
      <3>3. got[p] # <<>>
        <4>1. Hearing(c)
          BY DEF Dialogue
        <4> QED
          BY <4>1, <3>1, <3>2, <2>2 DEF Hearing, Gone
      <3>4. got[p][1] \in Said
        <4>1. got[p] \in Seq(Said)
          BY <2>2 DEF Answers
        <4>2. Len(got[p]) \in Nat \ {0}
          BY <3>3, <4>1, EmptySeq
        <4> QED
          BY <4>1, <4>2, ElementOfSeq
      <3>5. got[p][1] \in A
        <4>1. PICK d \in Client : got[p][1] = <<d, 1>> /\ messages[d] = 1
          BY <3>4 DEF Said
        <4>2. d = c
          <5>1. d \in Process
            BY DEF Client, Process
          <5>2. life[d] # "none"
            BY <5>1, <4>1 DEF Alive, Typed, Unborn
          <5> QED
            BY <5>2 DEF Alone
        <4> QED
          BY <4>1, <4>2
      <3>6. Written(p) \in A /\ content[2] \in Seq(A)
        BY <3>1, <3>2, <3>3, <3>5, <1>5
      <3> HIDE DEF A
      <3>7. content[2] \o Bytes(Written(p), 1) \in Seq(A) /\ Len(content[2] \o Bytes(Written(p), 1)) = in + 1
        BY <3>6, OneMore
      <3>8. content'[2] \in Seq(A) /\ Len(content'[2]) = in + 1
        BY <3>1, <3>7, <1>1, <1>2
      <3>9. ASSUME NEW q \in Server, life'[q] = "none" PROVE in + 1 + has <= messages'[5 - q]
        <4>1. life[q] = "none" /\ q # p
          BY <3>1, <3>9, <1>4 DEF Running
        <4>2. 5 - q = p /\ messages'[p] = 1 /\ in + has <= messages[5 - q]
          BY <4>1, <3>1, <3>2, <2>2, <1>1, <1>3, <1>5
        <4> HIDE DEF in, has
        <4> QED
          BY <4>2, <3>1, <1>3
      <3> QED
        BY <3>8, <3>9
    <2> QED
      BY <2>1, <2>2, <1>7, FullWrites
  <1>8. ASSUME NEW p \in Process, Reads(p)
        PROVE  /\ got'[c] \in Seq(A) /\ Len(got'[c]) <= 1 /\ messages' = messages
               /\ life'[c] \notin Dead => /\ content'[2] \in Seq(A)
                                          /\ \A q \in Server : life'[q] = "none" =>
                                                 Len(content'[2]) + Len(got'[c]) <= messages[5 - q]
    <2>1. /\ Running(p) /\ p \in Server \cup Client /\ messages' = messages
          /\ Call(p).pipe = IF p \in Server THEN 1 ELSE 2
          /\ got' = [got EXCEPT ![p] = got'[p]]
          /\ content' = [content EXCEPT ![Call(p).pipe] = content'[Call(p).pipe]]
          /\ Len(got'[p]) + Len(content'[Call(p).pipe]) = Len(got[p]) + Len(content[Call(p).pipe])
      BY <1>8, FullReads
    <2>2. CASE p \in Server
      <3>1. content'[2] = content[2] /\ got'[c] = got[c]
        BY <2>1, <2>2, <1>1, <1>2
      <3> QED
        BY <3>1, <2>1, <1>2, <1>4, <1>5
    <2>3. CASE p \in Client
      <3>1. p = c /\ life[c] \notin Dead /\ Call(c).pipe = 2
        BY <2>1, <2>3, <1>1, OnlyWriter DEF Running, Dead
      <3>2. content[2] \in Seq(A)
        BY <3>1, <1>5
      <3> HIDE DEF A
      <3>3. got'[c] \in Seq(A) /\ content'[2] \in Seq(A)
        BY <3>1, <3>2, <1>2, <1>8, Handing
      <3> DEFINE in1 == Len(content'[2])
                 has1 == Len(got'[c])
      <3>4. in1 \in Nat /\ has1 \in Nat /\ has1 + in1 = has + in
        BY <3>1, <3>3, <2>1, LenProperties
      <3> HIDE DEF in, has, in1, has1
      <3>5. ASSUME NEW q \in Server, life[q] = "none" PROVE in1 + has1 <= messages[5 - q]
        <4>1. in + has <= messages[5 - q] /\ messages[5 - q] \in Nat
          BY <3>1, <3>5, <1>1, <1>3, <1>5
        <4> QED
          BY <4>1, <3>4, <1>3
      <3>6. has1 <= 1
        <4>1. PICK q \in Server : life[q] = "none"
          BY DEF Alone
        <4>2. messages[5 - q] \in 0..3 /\ messages[5 - q] <= 1
          <5>1. messages[5 - q] \in 0..3 /\ messages[5 - q] <= Turn(5 - q, pc[5 - q])
            BY <1>1, <1>3 DEF Alive, Typed, InTurn
          <5>2. Turn(5 - q, pc[5 - q]) <= 1
            <6>1. pc[5 - q] \in 1..15 /\ 5 - q \in Server
              <7>1. pc \in [Process -> 1..15]
                BY DEF Alive, Typed, PipesTypeOK
              <7> QED
                BY <7>1, <1>1
            <6>2. FirstWrite(5 - q) = 6 /\ Span = 1
              BY <6>1 DEF FirstWrite, Span
            <6> QED
              BY <6>1, <6>2 DEF Turn
          <5>3. Turn(5 - q, pc[5 - q]) \in Nat
            <6>1. pc[5 - q] \in Nat /\ program \in Programs /\ 5 - q \in Process
              <7>1. pc \in [Process -> 1..15] /\ program \in Programs
                BY DEF Alive, Typed, PipesTypeOK
              <7> QED
                BY <7>1, <1>1
            <6> QED
              BY <6>1, Turning
          <5> QED
            BY <5>1, <5>2, <5>3
        <4> QED
          BY <4>1, <4>2, <3>4, <3>5
      <3> QED
        BY <3>3, <3>5, <3>6, <2>1, <1>4 DEF in1, has1
    <2> QED
      BY <2>1, <2>2, <2>3
  <1>9. CASE \E p \in Process : Writes(p)
    <2>1. PICK p \in Process : Writes(p)
      BY <1>9
    <2>2. /\ got' = got
          /\ life'[c] \notin Dead => /\ content'[2] \in Seq(A)
                                     /\ \A q \in Server : life'[q] = "none" =>
                                            Len(content'[2]) + has <= messages'[5 - q]
      BY <2>1, <1>7
    <2> QED
      BY <2>2, <1>2, <1>5
  <1>10. CASE \E p \in Process : Reads(p)
    BY <1>8, <1>10
  <1> QED
    BY <1>6, <1>9, <1>10, StrangersFlow

(* A client that is alone with a server.                                   *)
LEMMA DialogueStep ==
    ASSUME Alive, Answers, Ready, Dialogue, [PipesNext]_pipesVars PROVE Dialogue'
  <1>1. choice' = choice
    BY Lives DEF Process
  <1> SUFFICES ASSUME program = "full", NEW c \in Client, Alone(c)'
               PROVE  Meeting(c)' /\ Hearing(c)' /\ Answered(c)'
    BY <1>1, SameScripts DEF Dialogue, Client
  <1>2. \A q \in Process : life'[q] = "none" => life[q] = "none"
    BY Lives DEF Dead
  <1>3. Alone(c)
    BY <1>2 DEF Alone, Server, Client, Process
  <1>4. Meeting(c) /\ Hearing(c) /\ Answered(c)
    BY <1>3 DEF Dialogue
  <1>5. life[c] \in Dead => life'[c] \in Dead
    BY Lives DEF Client, Process, Dead
  <1>6. \A q \in Server : q \in Process /\ pc[q] \in 1..15 /\ (pc'[q] = pc[q] \/ pc'[q] = pc[q] + 1)
    <2>1. Server \subseteq Process /\ pc \in [Process -> 1..15]
      BY DEF Alive, Typed, PipesTypeOK, Server, Process
    <2> QED
      BY <2>1, Lives
  <1>7. Meeting(c)'
    <2>1. ASSUME NEW q \in Server, pc'[q] > 3 PROVE <<1, "w">> \in held'[c] \/ life'[c] \in Dead
      <3>1. CASE pc[q] > 3
        <4>1. <<1, "w">> \in held[c] \/ life[c] \in Dead
          BY <3>1, <1>4 DEF Meeting, Gone
        <4>2. \/ held'[c] = held[c] \/ life'[c] \in Dead
              \/ held'[c] = held[c] \cup {<<Call(c).pipe, Call(c).end>>}
          BY StrangersHold DEF Strangers, Client, Process
        <4> QED
          BY <4>1, <4>2, <1>5
      <3>2. CASE ~(pc[q] > 3)
        <4>1. pc[q] = 3 /\ pc'[q] # pc[q]
          BY <2>1, <3>2, <1>6
        <4> QED
          BY <4>1, <1>3, ServerMeets
      <3> QED
        BY <3>1, <3>2
    <2> QED
      BY <2>1 DEF Meeting, Gone, Server, Dead
  <1>8. Hearing(c)'
    <2>1. ASSUME NEW q \in Server, pc'[q] > 5 PROVE got'[q] # <<>> \/ life'[c] \in Dead
      <3>1. CASE pc[q] > 5
        <4>1. got[q] # <<>> \/ life[c] \in Dead
          BY <3>1, <1>4 DEF Hearing, Gone
        <4> QED
          BY <4>1, <1>5, <1>6, GotForGood
      <3>2. CASE ~(pc[q] > 5)
        <4>1. pc[q] = 5 /\ pc'[q] # pc[q]
          BY <2>1, <3>2, <1>6
        <4> QED
          BY <4>1, <1>3, <1>5, ServerHears
      <3> QED
        BY <3>1, <3>2
    <2> QED
      BY <2>1 DEF Hearing, Gone, Server, Dead
  <1> QED
    BY <1>3, <1>4, <1>7, <1>8, AnsweredStep

(***************************************************************************)
(* The whole invariant.                                                    *)
(***************************************************************************)
Delivering == /\ Alive /\ InOrder /\ Drained /\ Waited /\ Met /\ Foreground
              /\ Answers /\ Ready /\ Dialogue /\ SigpipeOnlyWhenGone

(* It holds before the programs start.                                     *)
LEMMA DeliveringBegins == PipesInit => Delivering
  <1> SUFFICES ASSUME PipesInit PROVE Delivering
    OBVIOUS
  <1>1. Alive
    BY Beginning
  <1>2. /\ pc = [p \in Process |-> 1] /\ life = [p \in Process |-> "none"] /\ held = [p \in Process |-> {}]
        /\ content = [f \in Pipe |-> <<>>] /\ done = [p \in Process |-> 0] /\ messages = done
        /\ got = [p \in Process |-> <<>>]
    BY DEF PipesInit
  <1>3. /\ \A p \in Process : /\ pc[p] = 1 /\ life[p] = "none" /\ held[p] = {} /\ done[p] = 0
                              /\ messages[p] = 0 /\ got[p] = <<>>
        /\ content[1] = <<>> /\ content[2] = <<>>
    BY <1>2 DEF Pipe
  <1>4. \A q \in Server \cup Client : q \in Process /\ 5 - q \in Process
    BY DEF Server, Client, Process
  <1>5. 1 \in Process /\ 2 \in Process /\ Author \in {1, 2} /\ Ear \in {1, 2}
    BY DEF Process, Author, Ear
  <1>6. InOrder
    <2> SUFFICES ASSUME program \in {"Pipe1", "Pipe2"} PROVE InOrder
      BY DEF InOrder
    <2>1. got[1] \o content[1] = <<>> /\ Len(<<>>) = 0 /\ MSGSIZE \in Nat
      BY <1>3, <1>5, PipeSizeAssumption
    <2>2. messages[Author] = 0 /\ Turn(Author, pc[Author]) = 0
      BY <1>3, <1>5 DEF Turn, FirstWrite
    <2>3. ReadsBefore(pc[1]) = 0
      BY <1>3, <1>5 DEF ReadsBefore
    <2> QED
      BY <2>1, <2>2, <2>3, <1>3, <1>5 DEF InOrder
  <1>7. Drained
    BY <1>3, <1>5 DEF Drained, EarPlace
  <1>8. Waited /\ Foreground
    BY <1>3, <1>5 DEF Waited, Foreground
  <1>9. Met
    BY <1>3, <1>4 DEF Met, Door
  <1>10. Answers
    <2>1. <<>> \in Seq(Said) /\ <<>> \in Seq(Said \cup {Garbage})
      BY EmptySeq
    <2> QED
      BY <2>1, <1>3, <1>4 DEF Answers
  <1>11. Ready
    BY <1>3, <1>4 DEF Ready
  <1>12. Dialogue
    <2>1. ASSUME NEW c \in Client PROVE Meeting(c) /\ Hearing(c)
      BY <1>3, <1>4 DEF Meeting, Hearing
    <2>2. ASSUME NEW c \in Client PROVE Answered(c)
      <3>1. <<>> \in Seq({<<c, 1>>}) /\ Len(<<>>) = 0
        BY EmptySeq
      <3>2. got[c] \in Seq({<<c, 1>>}) /\ Len(got[c]) = 0
        BY <3>1, <1>3, <1>4
      <3>3. content[2] \in Seq({<<c, 1>>}) /\ Len(content[2]) = 0
        BY <3>1, <1>3
      <3>4. \A q \in Server : messages[5 - q] = 0
        BY <1>3, <1>4
      <3> QED
        BY <3>2, <3>3, <3>4 DEF Answered
    <2> QED
      BY <2>1, <2>2 DEF Dialogue
  <1>13. SigpipeOnlyWhenGone
    BY <1>3 DEF SigpipeOnlyWhenGone
  <1> QED
    BY <1>1, <1>6, <1>7, <1>8, <1>9, <1>10, <1>11, <1>12, <1>13 DEF Delivering

(* Every step keeps it.                                                    *)
LEMMA DeliveringStep == Delivering /\ [PipesNext]_pipesVars => Delivering'
  <1> SUFFICES ASSUME Delivering, [PipesNext]_pipesVars PROVE Delivering'
    OBVIOUS
  <1>1. /\ Alive /\ InOrder /\ Drained /\ Waited /\ Met /\ Foreground
        /\ Answers /\ Ready /\ Dialogue /\ SigpipeOnlyWhenGone
    BY DEF Delivering
  <1>2. Alive' /\ InOrder' /\ Drained' /\ Waited' /\ Met' /\ Foreground'
    BY <1>1, AliveStep, InOrderStep, DrainedStep, WaitedStep, MetStep, ForegroundStep
  <1>3. Answers' /\ Ready' /\ Dialogue' /\ SigpipeOnlyWhenGone'
    BY <1>1, AnswersStep, ReadyStep, DialogueStep, SigpipeStep
  <1> QED
    BY <1>2, <1>3 DEF Delivering

(***************************************************************************)
(* What the invariant says of the programs.                                *)
(***************************************************************************)
(* Messages come out whole.                                                *)
LEMMA WholeMessagesFollow == Delivering => WholeMessages
  <1> SUFFICES ASSUME Delivering, program \in {"Pipe1", "Pipe2"}
               PROVE  /\ Len(got[1]) % MSGSIZE = 0
                      /\ \A a \in 1..Len(got[1]) : got[1][a][2] = (a - 1) \div MSGSIZE + 1
                      /\ life[1] = "exited" /\ ~Killed /\ pc[1] > Len(Script(1)) => Len(got[1]) = 3 * MSGSIZE
    BY DEF WholeMessages
  <1> DEFINE all == got[1] \o content[1]
  <1>1. /\ \A a \in 1..Len(all) : all[a] = <<Author, Number(a)>>
        /\ \E b \in 0..3 : Len(got[1]) = b * MSGSIZE
        /\ ~Killed => Len(got[1]) = MSGSIZE * ReadsBefore(pc[1])
    BY DEF Delivering, InOrder
  <1>2. /\ got[1] \in Seq(Byte) /\ content[1] \in Seq(Byte) /\ MSGSIZE \in Nat \ {0} /\ pc[1] \in 1..15
    <2>1. content \in [Pipe -> Seq(Byte)] /\ got \in [Process -> Seq(Byte)] /\ pc \in [Process -> 1..15]
      BY DEF Delivering, Alive, Typed, PipesTypeOK, Byte
    <2> QED
      BY <2>1, PipeSizeAssumption DEF Process, Pipe
  <1>3. PICK b \in 0..3 : Len(got[1]) = b * MSGSIZE
    BY <1>1
  <1>4. Len(got[1]) % MSGSIZE = 0
    <2>1. b = 0 \/ b = 1 \/ b = 2 \/ b = 3
      BY <1>3
    <2>2. 0 % MSGSIZE = 0 /\ MSGSIZE % MSGSIZE = 0 /\ (2 * MSGSIZE) % MSGSIZE = 0 /\ (3 * MSGSIZE) % MSGSIZE = 0
      BY <1>2
    <2> QED
      BY SMTT(30), <2>1, <2>2, <1>2, <1>3
  <1>5. \A a \in 1..Len(got[1]) : got[1][a] = <<Author, Number(a)>>
    <2>1. /\ Len(got[1]) \in Nat /\ Len(content[1]) \in Nat
          /\ Len(all) = Len(got[1]) + Len(content[1])
          /\ \A a \in 1..Len(got[1]) + Len(content[1]) : a <= Len(got[1]) => all[a] = got[1][a]
      BY <1>2, ConcatProperties, LenProperties
    <2> HIDE DEF all
    <2> QED
      BY <2>1, <1>1
  <1>6. ASSUME NEW a \in 1..Len(got[1]) PROVE got[1][a][2] = (a - 1) \div MSGSIZE + 1
    <2>1. a \in Nat \ {0} /\ a <= b * MSGSIZE
      BY <1>2, <1>3, LenProperties
    <2>2. a <= 3 * MSGSIZE
      <3>1. b * MSGSIZE <= 3 * MSGSIZE
        BY <1>2, <1>3
      <3> QED
        BY <2>1, <3>1, <1>2, <1>3
    <2>3. Number(a) = (a - 1) \div MSGSIZE + 1
      <3>1. CASE a <= MSGSIZE
        <4>1. (a - 1) \div MSGSIZE = 0
          BY <3>1, <2>1, <1>2
        <4> QED
          BY <4>1, <3>1 DEF Number
      <3>2. CASE a > MSGSIZE /\ a <= 2 * MSGSIZE
        <4>1. (a - 1) \div MSGSIZE = 1
          BY <3>2, <2>1, <1>2
        <4> QED
          BY <4>1, <3>2, <2>1, <1>2 DEF Number
      <3>3. CASE a > 2 * MSGSIZE
        <4>1. (a - 1) \div MSGSIZE = 2
          BY <3>3, <2>1, <2>2, <1>2
        <4> QED
          BY <4>1, <3>3, <2>1, <1>2 DEF Number
      <3> QED
        BY <3>1, <3>2, <3>3, <2>1, <1>2
    <2> QED
      BY <2>3, <1>5
  <1>7. ASSUME ~Killed, pc[1] > Len(Script(1)) PROVE Len(got[1]) = 3 * MSGSIZE
    <2>1. Len(Script(1)) = 7
      BY DEF Script, Pipe1, Pipe2Parent
    <2>2. ReadsBefore(pc[1]) = 3
      <3>1. pc[1] \in 8..15
        <4>1. pc[1] > 7
          BY <2>1, <1>7
        <4>2. pc[1] \in 1..15
          BY <1>2
        <4> QED
          BY <4>1, <4>2
      <3> QED
        BY <3>1 DEF ReadsBefore
    <2> QED
      BY <2>2, <1>1, <1>2, <1>7
  <1> QED
    BY <1>4, <1>6, <1>7

(* A reader that comes to its end has it all.                              *)
LEMMA ReadToTheEndFollows == Delivering => ReadToTheEnd
  <1> SUFFICES ASSUME Delivering, NEW p \in {1, 2}, NEW q \in {1, 2}, Listening, p # q,
                      life[p] = "exited", got[p] # <<>>, ~Killed
               PROVE  content[1] = <<>> /\ done[q] = 0 /\ got[q] = <<>>
    BY DEF ReadToTheEnd, Listening
  <1>1. Family /\ p \in Process /\ q \in Process /\ 1 \in Process /\ 2 \in Process
    BY DEF Listening, Family, Strangers, Process
  <1>2. Alive /\ Drained /\ SigpipeOnlyWhenGone
    BY DEF Delivering
  <1>3. /\ p = Ear /\ pc[p] >= EarPlace /\ q # Ear
        /\ program # "block" /\ pc[p] > EarPlace => content[1] = <<>> /\ Holders(1, "w") = {}
        /\ program = "block" => Len(got[2]) + Len(content[1]) = IF messages[1] = 0 THEN done[1] ELSE size
        /\ program = "block" /\ pc[2] > 1 => Len(got[2]) >= size
    BY <1>1, <1>2 DEF Drained, Listening
  <1>4. got[q] = <<>>
    BY <1>1, <1>2, <1>3 DEF Drained, Listening
  <1>5. /\ pc[p] \in 1..15 /\ done[q] \in Nat /\ done[1] \in Nat /\ messages[1] \in 0..3 /\ size \in Nat
        /\ got[2] \in Seq(Byte) /\ content[1] \in Seq(Byte)
        /\ life[q] \in {"none", "run", "exited", "killed", "SIGPIPE"}
    <2>1. content \in [Pipe -> Seq(Byte)] /\ got \in [Process -> Seq(Byte)]
      BY <1>2 DEF Alive, Typed, PipesTypeOK, Byte
    <2>2. /\ pc \in [Process -> 1..15] /\ done \in [Process -> Nat] /\ messages \in [Process -> 0..3]
          /\ size \in Nat /\ life \in [Process -> {"none", "run", "exited", "killed", "SIGPIPE"}]
      BY <1>2, PipeSizeAssumption DEF Alive, Typed, PipesTypeOK
    <2> QED
      BY <2>1, <2>2, <1>1 DEF Pipe
  <1>6. pc[p] > EarPlace
    <2>1. pc[p] > Len(Script(p)) \/ Call(p).op = "fork"
      BY <1>1, <1>2 DEF Alive, Deaths
    <2>2. pc[p] = EarPlace => pc[p] <= Len(Script(p)) /\ Call(p).op # "fork"
      BY <1>3 DEF Listening, Ear, EarPlace, Call, Script, Pipe3Child, Pipe4Parent, Pipe5Child, BlockChild,
         ReadToEnd, ReadFor
    <2>3. Len(Script(p)) \in Nat /\ EarPlace \in Nat
      BY <1>1, <1>2, ScriptLengths DEF Alive, Typed, PipesTypeOK, EarPlace
    <2> QED
      <3>1. pc[p] >= EarPlace /\ pc[p] \in Nat
        BY SMTT(30), <1>3, <1>5
      <3>2. pc[p] # EarPlace
        BY <2>1, <2>2, <2>3
      <3> QED
        BY <3>1, <3>2, <2>3
  <1>7. done[q] # 0 => program = "block" \/ ~Running(q)
    <2> SUFFICES ASSUME done[q] # 0, program # "block", Running(q) PROVE FALSE
      OBVIOUS
    <2>1. PartOf(q, done[q])
      BY <1>1, <1>2 DEF Alive, Typed, Partial
    <2>2. pc[q] \in 1..Len(Script(q)) /\ Has(q, "w") /\ Call(q).op = "write"
      BY <2>1, <1>1, <1>2, InACall DEF PartOf, Alive, Typed
    <2>3. Call(q).pipe = 1
      BY <2>2, <1>1, <1>5, Ears DEF Call, Writer
    <2>4. Holders(1, "w") # {}
      BY <2>2, <2>3, <1>1 DEF Holders, Has
    <2> QED
      BY <2>4, <1>3, <1>6
  <1>8. done[q] = 0
    <2> SUFFICES ASSUME done[q] # 0 PROVE FALSE
      OBVIOUS
    <2>1. PartOf(q, done[q])
      BY <1>1, <1>2 DEF Alive, Typed, Partial
    <2>2. pc[q] \in 1..Len(Script(q)) /\ Call(q).op = "write" /\ done[q] < Call(q).n
      BY <2>1, <1>1, <1>2, InACall DEF PartOf, Alive, Typed
    <2>3. CASE program = "block"
      <3>1. q = 1 /\ p = 2 /\ pc[1] = 3 /\ Call(1).n = size
        BY <2>2, <2>3, <1>3, <1>5, <1>1, Ears DEF Call, Writer, Ear
      <3>2. messages[1] = 0
        <4>1. messages[1] <= Turn(1, pc[1])
          BY <1>1, <1>2 DEF Alive, Typed, InTurn
        <4> QED
          BY <4>1, <3>1, <2>3, <1>5 DEF Turn, FirstWrite
      <3>3. Len(got[2]) >= size
        BY <2>3, <3>1, <1>3, <1>6 DEF EarPlace
      <3> DEFINE g == Len(got[2])
                 h == Len(content[1])
      <3>4. g \in Nat /\ h \in Nat /\ g + h = done[1] /\ g >= size
        BY <3>2, <3>3, <2>3, <1>3, <1>5, LenProperties
      <3> HIDE DEF g, h
      <3> QED
        BY <3>1, <3>4, <2>2, <1>5
    <2>4. CASE program # "block"
      <3>1. ~Running(q)
        BY <2>4, <1>7
      <3>2. life[q] # "none"
        BY <1>1, <1>2 DEF Alive, Typed, Unborn
      <3>3. life[q] # "exited"
        <4>1. Len(Script(q)) \in Nat
          BY <2>2
        <4> QED
          BY <4>1, <2>2, <1>1, <1>2 DEF Alive, Deaths
      <3> QED
        BY <3>1, <3>2, <3>3, <1>1, <1>2, <1>5 DEF Killed, SigpipeOnlyWhenGone, Running, Family
    <2> QED
      BY <2>3, <2>4
  <1>9. content[1] = <<>>
    <2>1. CASE program # "block"
      BY <2>1, <1>3, <1>6
    <2>2. CASE program = "block"
      <3>1. p = 2 /\ q = 1 /\ Len(got[2]) >= size
        BY <2>2, <1>3, <1>6 DEF Ear, EarPlace
      <3> DEFINE g == Len(got[2])
                 h == Len(content[1])
      <3>2. g \in Nat /\ h \in Nat /\ g + h = (IF messages[1] = 0 THEN 0 ELSE size) /\ g >= size
        BY <3>1, <2>2, <1>3, <1>5, <1>8, LenProperties
      <3>3. h = 0
        <4> HIDE DEF g, h
        <4> QED
          BY <3>2, <1>5
      <3> QED
        BY <3>3, <1>5, EmptySeq
    <2> QED
      BY <2>1, <2>2
  <1> QED
    BY <1>4, <1>8, <1>9

(* The second command does not overtake the first.                         *)
LEMMA ForegroundFollows == Delivering => ForegroundFirst
  <1> SUFFICES ASSUME Delivering, program = "shell", ~background, life[4] # "none"
               PROVE  life[3] \notin {"none", "run"} \/ (life[3] = "none" /\ life[2] # "run")
    BY DEF ForegroundFirst
  <1>1. Family /\ 4 \in Process \ {1} /\ Birth(4) = 9 /\ pc[1] \in 1..15
    BY DEF Family, Strangers, Process, Birth, Delivering, Alive, Typed, PipesTypeOK
  <1>2. pc[1] > 6
    <2>1. pc[1] > Birth(4)
      BY <1>1 DEF Delivering, Alive, Births, Family
    <2> QED
      BY <2>1, <1>1
  <1> QED
    BY <1>2 DEF Delivering, Foreground, Dead

(* A client hears its own word, or what nobody has said.                   *)
LEMMA OwnAnswerFollows == Delivering => OwnAnswer
  <1> SUFFICES ASSUME Delivering, NEW c \in Client, program = "full", got[c] # <<>>
               PROVE  /\ got[c][1] = Garbage \/ \E d \in Client : got[c][1] = <<d, 1>> /\ messages[d] = 1
                      /\ (\A q \in Client \ {c} : life[q] = "none") /\ (\E q \in Server : life[q] = "none")
                           => got[c] = <<(<<c, 1>>)>>
    BY DEF OwnAnswer
  <1>1. got[c][1] = Garbage \/ \E d \in Client : got[c][1] = <<d, 1>> /\ messages[d] = 1
    <2>1. got[c] \in Seq(Said \cup {Garbage})
      BY DEF Delivering, Answers
    <2>2. Len(got[c]) \in Nat \ {0}
      BY <2>1, EmptySeq
    <2>3. got[c][1] \in Said \cup {Garbage}
      BY <2>1, <2>2, ElementOfSeq
    <2> QED
      BY <2>3 DEF Said
  <1>2. ASSUME Alone(c) PROVE got[c] = <<(<<c, 1>>)>>
    <2>1. got[c] \in Seq({<<c, 1>>}) /\ Len(got[c]) <= 1
      BY <1>2 DEF Delivering, Dialogue, Answered
    <2>2. Len(got[c]) \in Nat \ {0}
      BY <2>1, EmptySeq
    <2>3. Len(got[c]) = 1
      <3> DEFINE has == Len(got[c])
      <3>1. has \in Nat \ {0} /\ has <= 1
        BY <2>1, <2>2
      <3> HIDE DEF has
      <3>2. has = 1
        BY <3>1
      <3> QED
        BY <3>2 DEF has
    <2>4. got[c][1] \in {<<c, 1>>}
      BY <2>1, <2>2, ElementOfSeq
    <2> QED
      BY <2>1, <2>3, <2>4
  <1> QED
    BY <1>1, <1>2 DEF Alone

(* What a reader of src/Pipe has got is what its writers have written, in  *)
(* whole messages, in order and to the end wherever the program relies on  *)
(* it; SIGPIPE kills only who writes when no reader is left; and the shell *)
(* goes on without waiting only when it was told so.                       *)
THEOREM Delivered == PipesSpec => []PipesDeliver
  <1>1. Delivering => PipesDeliver
    BY WholeMessagesFollow, ReadToTheEndFollows, ForegroundFollows, OwnAnswerFollows
    DEF PipesDeliver, Delivering, Alive, Typed
  <1> QED
    BY <1>1, DeliveringBegins, DeliveringStep, PTL DEF PipesSpec

=============================================================================
