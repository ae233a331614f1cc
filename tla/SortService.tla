---------------------------- MODULE SortService ----------------------------
(***************************************************************************)
(* src/Socket/sortclient.c and the child of sortserverP.c that serves it:  *)
(* the client sends a count and its words, the server sorts them with      *)
(* bubble() and sends them back.  A word is a sequence of characters other *)
(* than NUL; a buffer is an array of characters.  Each write() is small and*)
(* goes to "localhost": it arrives in one piece, and a read() that asks for*)
(* as many bytes as were written gets them.  A length and the string after *)
(* it are one message.  How the server forks its children is in Children.  *)
(***************************************************************************)
EXTENDS Integers, Sequences

CONSTANTS Words,                  \* possible arguments of the client
          MaxArgs,                \* at most so many
          TEMP,                   \* sizeof(temp), 80
          MAXITEMS,               \* elements of ptr, 1024
          Mortal                  \* somebody may kill the server's child

ASSUME WordAssumption == \A w \in Words : w \in Seq(Nat \ {0})
ASSUME SizeAssumption == /\ MaxArgs \in Nat /\ TEMP \in Nat \ {0} /\ MAXITEMS \in Nat \ {0}
                         /\ Mortal \in BOOLEAN

VARIABLES args,                   \* argv[1], ...; never changes
          zeroed,                 \* temp was full of NULs when main() began
          temp,                   \* the buffer of the client
          client, k,              \* its control point, and i of its loops
          sent, printed,          \* words sent (history) and printed
          up, down,               \* the stream in each direction
          server, n, ptr,         \* control point of the child, its items
          i, sorted,              \* bubble()
          end                     \* what the client's kernel knows of the
                                  \* server's end: "open", "fin" or "rst"

buffers == <<args, zeroed, temp, sent, printed>>
clientVars == <<buffers, client, k>>
serverVars == <<server, n, ptr, i, sorted, end>>
vars == <<clientVars, up, down, serverVars>>

argc1 == Len(args)                \* argc - 1
Smaller(a, b) == IF a < b THEN a ELSE b

Init ==
    /\ args \in UNION {[1..m -> Words] : m \in 1..MaxArgs}
    /\ zeroed \in BOOLEAN
    /\ temp = [x \in 1..TEMP |-> IF zeroed THEN 0 ELSE 1]
    /\ client = "count" /\ k = 1
    /\ sent = <<>> /\ printed = <<>> /\ up = <<>> /\ down = <<>>
    /\ server = "count" /\ n = 0 /\ ptr = <<>> /\ i = 1 /\ sorted = TRUE
    /\ end = "open"

-----------------------------------------------------------------------------
(* Strings in C.                                                           *)

(* The string that begins where a buffer does.                             *)
CString(b) ==
    LET stop == CHOOSE x \in 1..TEMP : b[x] = 0 /\ \A y \in 1..(x - 1) : b[y] # 0
    IN SubSeq(b, 1, stop - 1)

(* strncpy(temp, w, min(sizeof(temp), strlen(w))) and temp[79] = '\0'.     *)
Copied(w) == [x \in 1..TEMP |-> IF x = TEMP THEN 0 ELSE IF x <= Len(w) THEN w[x] ELSE temp[x]]

(* strcmp(a, b) > 0.                                                       *)
Greater(a, b) ==
    \E x \in 0..Len(b) :
        /\ x <= Len(a) /\ SubSeq(a, 1, x) = SubSeq(b, 1, x)
        /\ Len(a) > x
        /\ x = Len(b) \/ a[x + 1] > b[x + 1]

-----------------------------------------------------------------------------
(* sortclient.c.                                                           *)
ClientGone == client \in {"done", "mismatch", "failed"}
ClientFails == client' = "failed" /\ UNCHANGED <<buffers, k, up, down, serverVars>>

SendCount ==
    /\ client = "count" /\ end = "open"
    /\ up' = Append(up, argc1)
    /\ client' = "send"
    /\ UNCHANGED <<buffers, k, down, serverVars>>

SendWord ==
    /\ client = "send" /\ k <= argc1 /\ end = "open"
    /\ temp' = Copied(args[k])
    /\ sent' = Append(sent, CString(temp'))
    /\ up' = Append(up, CString(temp'))
    /\ k' = k + 1
    /\ UNCHANGED <<args, zeroed, client, printed, down, serverVars>>

(* A write() to a server that has gone; if the first of them still seems   *)
(* to succeed, the reset it brings fails the next call.                    *)
SendFails ==
    /\ client \in {"count", "send"} /\ end # "open"
    /\ client = "count" \/ k <= argc1
    /\ ClientFails

DataSent ==
    /\ client = "send" /\ k > argc1
    /\ client' = "read count"
    /\ UNCHANGED <<buffers, k, up, down, serverVars>>

(* At the end of file read() returns 0, which is not an error, and l is    *)
(* still the count that was sent.                                          *)
ReadCount ==
    /\ client = "read count"
    /\ down # <<>> \/ end = "fin"
    /\ client' = IF down # <<>> /\ down[1] # argc1 THEN "mismatch" ELSE "print"
    /\ down' = IF down # <<>> THEN Tail(down) ELSE down
    /\ k' = 1
    /\ UNCHANGED <<buffers, up, serverVars>>

ReadWord ==
    /\ client = "print" /\ k <= argc1 /\ down # <<>>
    /\ temp' = [x \in 1..TEMP |-> IF x <= Len(down[1]) THEN down[1][x]
                                  ELSE IF x = Len(down[1]) + 1 THEN 0 ELSE temp[x]]
    /\ printed' = Append(printed, CString(temp'))
    /\ down' = Tail(down)
    /\ k' = k + 1
    /\ UNCHANGED <<args, zeroed, client, sent, up, serverVars>>

(* At the end of file len is not set: the second read() fails or, like the *)
(* first, returns 0, and what temp holds is printed again.                 *)
ReadNothing ==
    /\ client = "print" /\ k <= argc1 /\ down = <<>> /\ end = "fin"
    /\ \/ /\ printed' = Append(printed, CString(temp))
          /\ k' = k + 1
          /\ UNCHANGED <<args, zeroed, temp, client, sent, up, down, serverVars>>
       \/ ClientFails

ReadFails ==
    /\ client \in {"read count", "print"} /\ end = "rst"
    /\ client = "print" => k <= argc1
    /\ ClientFails

Printed ==
    /\ client = "print" /\ k > argc1
    /\ client' = "done"
    /\ UNCHANGED <<buffers, k, up, down, serverVars>>

-----------------------------------------------------------------------------
(* dowork() of sortserverP.c.  The end of the process resets the connection*)
(* if there is something it has not read.                                  *)
ServerGone == server \in {"closed", "killed", "segv"}
Leaves(how) == /\ server' = how
               /\ end' = IF up = <<>> THEN "fin" ELSE "rst"
               /\ UNCHANGED <<n, ptr, i, sorted>>

ServerCount ==
    /\ server = "count" /\ up # <<>>
    /\ n' = Head(up) /\ up' = Tail(up)
    /\ server' = "items"
    /\ UNCHANGED <<clientVars, down, ptr, i, sorted, end>>

ServerItem ==
    /\ server = "items" /\ Len(ptr) < Smaller(n, MAXITEMS) /\ up # <<>>
    /\ ptr' = Append(ptr, Head(up)) /\ up' = Tail(up)
    /\ UNCHANGED <<clientVars, down, server, n, i, sorted, end>>

(* ptr[i] = NULL; with as many items as ptr has elements that is written   *)
(* past its end, and may be the end of the process.                        *)
ServerItemsEnd ==
    /\ server = "items" /\ Len(ptr) = Smaller(n, MAXITEMS)
    /\ \/ server' = "bubble" /\ UNCHANGED <<n, ptr, i, sorted, end>>
       \/ Len(ptr) = MAXITEMS /\ Leaves("segv")
    /\ UNCHANGED <<clientVars, up, down>>

(* bubble(): the inner loop looks for the end of the list after it has     *)
(* compared, so that one item is compared with NULL.                       *)
CompareNull ==
    /\ server = "bubble" /\ i + 1 > Len(ptr)
    /\ Leaves("segv")
    /\ UNCHANGED <<clientVars, up, down>>

Swapped == [ptr EXCEPT ![i] = ptr[i + 1], ![i + 1] = ptr[i]]

(* Mutant of Compare: a pass ends one comparison early.                    *)
CompareShort ==
    /\ server = "bubble" /\ i + 1 <= Len(ptr)
    /\ LET swap == Greater(ptr[i], ptr[i + 1])
           more == i + 3 <= Len(ptr)
       IN /\ ptr' = IF swap THEN Swapped ELSE ptr
          /\ i' = IF more THEN i + 1 ELSE 1
          /\ sorted' = IF more THEN sorted /\ ~swap ELSE TRUE
          /\ server' = IF more \/ swap \/ ~sorted THEN "bubble" ELSE "answer"
    /\ UNCHANGED <<clientVars, up, down, n, end>>

(* Mutant of Compare: equal neighbours are exchanged.                      *)
CompareEqual ==
    /\ server = "bubble" /\ i + 1 <= Len(ptr)
    /\ LET swap == ~Greater(ptr[i + 1], ptr[i])
           more == i + 2 <= Len(ptr)
       IN /\ ptr' = IF swap THEN Swapped ELSE ptr
          /\ i' = IF more THEN i + 1 ELSE 1
          /\ sorted' = IF more THEN sorted /\ ~swap ELSE TRUE
          /\ server' = IF more \/ swap \/ ~sorted THEN "bubble" ELSE "answer"
    /\ UNCHANGED <<clientVars, up, down, n, end>>

Compare ==
    /\ server = "bubble" /\ i + 1 <= Len(ptr)
    /\ LET swap == Greater(ptr[i], ptr[i + 1])
           more == i + 2 <= Len(ptr)                \* while (ptr[i + 1])
       IN /\ ptr' = IF swap THEN Swapped ELSE ptr
          /\ i' = IF more THEN i + 1 ELSE 1
          /\ sorted' = IF more THEN sorted /\ ~swap ELSE TRUE
          /\ server' = IF more \/ swap \/ ~sorted THEN "bubble" ELSE "answer"
    /\ UNCHANGED <<clientVars, up, down, n, end>>

Answer ==
    /\ server = "answer"
    /\ down' = Append(down, Len(ptr))
    /\ server' = "write" /\ i' = 1
    /\ UNCHANGED <<clientVars, up, n, ptr, sorted, end>>

WriteItem ==
    /\ server = "write" /\ i <= Len(ptr)
    /\ down' = Append(down, ptr[i])
    /\ i' = i + 1
    /\ UNCHANGED <<clientVars, up, server, n, ptr, sorted, end>>

ServerCloses ==
    /\ server = "write" /\ i > Len(ptr)
    /\ Leaves("closed")
    /\ UNCHANGED <<clientVars, up, down>>

(* Somebody kills the child, or SIGPIPE does, when the client has gone.    *)
ServerKilled ==
    /\ Mortal \/ (ClientGone /\ server \in {"answer", "write"})
    /\ ~ServerGone
    /\ Leaves("killed")
    /\ UNCHANGED <<clientVars, up, down>>

-----------------------------------------------------------------------------
ClientStep == SendCount \/ SendWord \/ SendFails \/ DataSent \/ ReadCount \/ ReadWord
              \/ ReadNothing \/ ReadFails \/ Printed
ServerStep == ServerCount \/ ServerItem \/ ServerItemsEnd \/ CompareNull \/ Compare
              \/ Answer \/ WriteItem \/ ServerCloses

Next == ClientStep \/ ServerStep \/ ServerKilled

Spec == Init /\ [][Next]_vars
FairSpec == Spec /\ WF_vars(ClientStep) /\ WF_vars(ServerStep)

-----------------------------------------------------------------------------
(* Properties.                                                             *)

Word == Seq(Nat \ {0})
TypeOK ==
    /\ temp \in [1..TEMP -> Nat] /\ zeroed \in BOOLEAN
    /\ client \in {"count", "send", "read count", "print", "done", "mismatch", "failed"}
    /\ server \in {"count", "items", "bubble", "answer", "write", "closed", "killed", "segv"}
    /\ k \in 1..(argc1 + 1) /\ i \in 1..(MAXITEMS + 1) /\ n \in 0..argc1
    /\ sent \in Seq(Word) /\ printed \in Seq(Word) /\ ptr \in Seq(Word)
    /\ sorted \in BOOLEAN /\ end \in {"open", "fin", "rst"}

(* What is sent for an argument begins with it, cut to the buffer.  It is  *)
(* no more than that when no longer argument went before, and the buffer   *)
(* happened to be full of NULs; strncpy() writes no terminator.            *)
Given(x) == SubSeq(args[x], 1, Smaller(Len(args[x]), TEMP - 1))
SentAsGiven ==
    \A x \in 1..Len(sent) :
        /\ SubSeq(sent[x], 1, Len(Given(x))) = Given(x)
        /\ zeroed /\ (\A y \in 1..x : Len(args[y]) <= Len(args[x])) => sent[x] = Given(x)

Copies(s, w) == {x \in 1..Len(s) : s[x] = w}
Permutation(s, t) ==
    /\ Len(s) = Len(t)
    /\ \E f \in [1..Len(s) -> 1..Len(s)] :
          /\ \A x, y \in 1..Len(s) : f[x] = f[y] => x = y
          /\ \A x \in 1..Len(s) : s[x] = t[f[x]]

(* A client that is served to the end prints the words it has sent, sorted.*)
(* It is always so but for one word alone, at which the server dies - the  *)
(* client does not notice, and prints its word - and for as many words as  *)
(* the server has room for, or more; a client with more is never content.  *)
SortedAnswer ==
    /\ client = "done" /\ server = "closed" =>
           /\ Permutation(printed, sent)
           /\ \A x \in 1..(argc1 - 1) : ~Greater(printed[x], printed[x + 1])
    /\ server = "segv" => argc1 = 1 \/ argc1 >= MAXITEMS
    /\ server = "segv" /\ argc1 = 1 /\ client = "done" => printed = sent
    /\ argc1 > MAXITEMS => client # "done"

(* The client asks and gets what it was told to.                           *)
SortServed == TypeOK /\ SentAsGiven /\ SortedAnswer

(* Both ends come to an end, whatever happens to the server.               *)
BothEnd == <>(ClientGone /\ ServerGone)

=============================================================================
