------------------------------- MODULE Pipes -------------------------------
(***************************************************************************)
(* The programs of src/Pipe that talk through pipes and FIFOs:             *)
(*   "Pipe1"  Pipe1.c, one process that writes and then reads;             *)
(*   "Pipe2"  Pipe2.c and PipeSample.c, a child writes three messages;     *)
(*   "Pipe3"  Pipe3.c, a parent writes, its child reads to the end;        *)
(*   "Pipe4"  Pipe4.c, stdout of the child to stdin of the parent;         *)
(*   "Pipe5"  Pipe5.c, ls | grep;                                          *)
(*   "block"  PipeWriteBlock.c, more bytes than a pipe holds;              *)
(*   "shell"  FakeShell.c, a reader for each command;                      *)
(*   "half"   PipeServer.c and PipeClient.c,                               *)
(*   "full"   PipeServer2.c and PipeClient2.c, strangers on FIFOs.         *)
(* A process is the script of its system calls.  A pipe knows its ends by  *)
(* the processes that hold them: read() returns 0 when nobody can write,   *)
(* write() raises SIGPIPE when nobody can read.  A byte is <<writer, number*)
(* of its message>>; what is printed is left out, as are failures of       *)
(* pipe(), dup2() and mkfifo(), which end a program before it does harm.   *)
(***************************************************************************)
EXTENDS Integers, Sequences, FiniteSets

CONSTANTS Programs,               \* the programs considered, among these nine
          Sizes,                  \* argument of PipeWriteBlock.c, output of ls
                                  \* and of the commands of the shell
          MSGSIZE, SMALLSIZE, LINELEN, MAX_BUF_SIZE,
          STRLEN,                 \* of string1 and string2 in Pipe3.c
          PIPESIZE, PIPE_BUF,     \* what a pipe holds, what it takes in one piece
          MayBeKilled,            \* processes that a user may kill
          Faults                  \* what may fail: "fork"

ASSUME ProgramAssumption == Programs \subseteq {"Pipe1", "Pipe2", "Pipe3", "Pipe4", "Pipe5",
                                                "block", "shell", "half", "full"}
ASSUME PipeSizeAssumption == /\ Sizes \subseteq Nat /\ MSGSIZE \in Nat \ {0} /\ SMALLSIZE \in Nat \ {0, 1}
                             /\ LINELEN \in Nat \ {0, 1, 2} /\ MAX_BUF_SIZE \in Nat \ {0}
                             /\ PIPE_BUF \in Nat /\ PIPESIZE \in Nat /\ PIPE_BUF <= PIPESIZE
                             /\ STRLEN \in 1..PIPE_BUF /\ 3 * MSGSIZE <= PIPE_BUF

Process == 1..5
Pipe == {1, 2}
Ends == Pipe \X {"r", "w"}
Server == {1, 4}                  \* of a FIFO; the second may be a restart
Client == {2, 3}
Garbage == <<0, 0>>               \* what is in a buffer that was never set

VARIABLES program, size, background,  \* what runs; these never change
          fifos,                  \* FIFOs in the file system
          pc,                     \* number of the next call of each process
          life,                   \* "none", "run", or how it ended
          reaped,                 \* processes waited for
          held,                   \* ends of pipes that each process has open
          content,                \* bytes in each pipe
          done, messages,         \* bytes of the write() that goes on; write()s
          got                     \* bytes each process has read

choice == <<program, size, background>>
flow == <<content, done, messages, got>>
pipesVars == <<choice, fifos, pc, life, reaped, held, flow>>

-----------------------------------------------------------------------------
(* The scripts.                                                            *)
MakePipe(k) == [op |-> "pipe", pipe |-> k]
Fork(q) == [op |-> "fork", child |-> q, survives |-> FALSE]
ForkReader(q) == [op |-> "fork", child |-> q, survives |-> TRUE]
Close(k, e) == [op |-> "close", pipe |-> k, end |-> e]
Write(k, n) == [op |-> "write", pipe |-> k, n |-> n]
Reply(k) == [op |-> "reply", pipe |-> k, n |-> 1]
Read(k, n) == [op |-> "read", pipe |-> k, n |-> n, until |-> 0]
ReadFor(k, n, bytes) == [op |-> "readfor", pipe |-> k, n |-> n, until |-> bytes]
ReadToEnd(k, n) == [op |-> "readtoend", pipe |-> k, n |-> n, until |-> 0]
Mkfifo(k) == [op |-> "mkfifo", pipe |-> k]
Open(k, e) == [op |-> "open", pipe |-> k, end |-> e]
Wait == [op |-> "wait"]
WaitFor(q) == [op |-> "waitfor", child |-> q]
Reap == [op |-> "reap"]

Pipe1 == <<MakePipe(1), Write(1, MSGSIZE), Write(1, MSGSIZE), Write(1, MSGSIZE),
           Read(1, MSGSIZE), Read(1, MSGSIZE), Read(1, MSGSIZE)>>

(* Mutant of Pipe2Child: write(p[1], msg, strlen(msg)).                    *)
Pipe2ChildShort == <<Close(1, "r"), Write(1, MSGSIZE - 1), Write(1, MSGSIZE - 1),
                     Write(1, MSGSIZE - 1)>>

Pipe2Child == <<Close(1, "r"), Write(1, MSGSIZE), Write(1, MSGSIZE), Write(1, MSGSIZE)>>
Pipe2Parent == <<MakePipe(1), Fork(2), Close(1, "w"), Read(1, MSGSIZE), Read(1, MSGSIZE),
                 Read(1, MSGSIZE), Wait>>

(* Mutant of Pipe3Child: the write end is left open.                       *)
Pipe3ChildKeepsEnd == <<ReadToEnd(1, SMALLSIZE - 1), Close(1, "r")>>

Pipe3Child == <<Close(1, "w"), ReadToEnd(1, SMALLSIZE - 1), Close(1, "r")>>
Pipe3Parent == <<MakePipe(1), Fork(2), Close(1, "r"), Write(1, STRLEN), Write(1, STRLEN),
                 Close(1, "w"), Wait>>

(* printf() to a pipe is buffered: the three lines go out together at exit.*)
Pipe4Child == <<Close(1, "r"), Write(1, 3 * MSGSIZE)>>
Pipe4Parent == <<MakePipe(1), Fork(2), Close(1, "w"), ReadToEnd(1, 3 * MSGSIZE + 1), Wait,
                 Close(1, "r")>>

Pipe5Child == <<Close(1, "w"), ReadToEnd(1, MAX_BUF_SIZE)>>
Pipe5Parent == <<MakePipe(1), Fork(2), Close(1, "r"), Write(1, size)>>

BlockParent == <<MakePipe(1), Fork(2), Write(1, size), Wait>>
BlockChild == <<ReadFor(1, MSGSIZE, size), Wait>>

HalfServer == <<Mkfifo(1), Open(1, "r"), Read(1, MAX_BUF_SIZE)>>
HalfClient == <<Open(1, "w"), Write(1, 1)>>
FullServer == <<Mkfifo(1), Mkfifo(2), Open(1, "r"), Open(2, "w"), Read(1, MAX_BUF_SIZE), Reply(2)>>
FullClient == <<Open(1, "w"), Open(2, "r"), Write(1, 1), Read(2, MAX_BUF_SIZE)>>

(* The k-th command of the shell is process 2 * k, its reader the next.    *)
ShellLoop == <<MakePipe(1), Fork(2), Close(1, "w"), ForkReader(3), Close(1, "r"), WaitFor(3), Reap,
               MakePipe(2), Fork(4), Close(2, "w"), ForkReader(5), Close(2, "r"), WaitFor(5), Reap>>
ShellCommand(k) == <<Write(k, size)>>
ShellReader(k) == <<Read(k, LINELEN - 2)>>

Script(p) ==
    LET parent(s) == IF p = 1 THEN s ELSE <<>>
        family(s, t) == IF p = 2 THEN t ELSE parent(s)
        strangers(s, c) == IF p \in Server THEN s ELSE c
    IN CASE program = "Pipe1" -> parent(Pipe1)
         [] program = "Pipe2" -> family(Pipe2Parent, Pipe2Child)
         [] program = "Pipe3" -> family(Pipe3Parent, Pipe3Child)
         [] program = "Pipe4" -> family(Pipe4Parent, Pipe4Child)
         [] program = "Pipe5" -> family(Pipe5Parent, Pipe5Child)
         [] program = "block" -> family(BlockParent, BlockChild)
         [] program = "half" -> strangers(HalfServer, HalfClient)
         [] program = "full" -> strangers(FullServer, FullClient)
         [] program = "shell" ->
                IF p = 1 THEN ShellLoop
                ELSE IF p \in {2, 4} THEN ShellCommand(p \div 2) ELSE ShellReader(p \div 2)

-----------------------------------------------------------------------------
Strangers == program \in {"half", "full"}
Users == IF Strangers THEN Server \cup Client ELSE {1}  \* started by a user

PipesInit ==
    /\ program \in Programs
    /\ size \in IF program \in {"Pipe5", "block", "shell"} THEN Sizes ELSE {0}
    /\ background \in IF program = "shell" THEN BOOLEAN ELSE {FALSE}
    /\ fifos \in IF Strangers THEN {{}, Pipe} ELSE {{}}
    /\ pc = [p \in Process |-> 1]
    /\ life = [p \in Process |-> "none"]
    /\ reaped = {}
    /\ held = [p \in Process |-> {}]
    /\ content = [k \in Pipe |-> <<>>]
    /\ done = [p \in Process |-> 0] /\ messages = done
    /\ got = [p \in Process |-> <<>>]

Running(p) == life[p] = "run"
Call(p) == Script(p)[pc[p]]
At(p, op) == Running(p) /\ pc[p] <= Len(Script(p)) /\ Call(p).op = op
Returns(p) == pc' = [pc EXCEPT ![p] = @ + 1]
Holders(k, e) == {p \in Process : <<k, e>> \in held[p]}
Has(p, e) == <<Call(p).pipe, e>> \in held[p]
Content(p) == content[Call(p).pipe]

(* A process ends, and the kernel closes what it had open.                 *)
Dies(p, how) ==
    /\ life' = [life EXCEPT ![p] = how]
    /\ held' = [held EXCEPT ![p] = {}]

Start(p) ==
    /\ p \in Users /\ life[p] = "none"
    /\ life' = [life EXCEPT ![p] = "run"]
    /\ UNCHANGED <<choice, fifos, pc, reaped, held, flow>>

Exit(p) ==
    /\ Running(p) /\ pc[p] > Len(Script(p))
    /\ ~(program = "shell" /\ p = 1)     \* the shell reads the next line
    /\ Dies(p, "exited")
    /\ UNCHANGED <<choice, fifos, pc, reaped, flow>>

Kill(p) ==
    /\ p \in MayBeKilled /\ Running(p)
    /\ Dies(p, "killed")
    /\ UNCHANGED <<choice, fifos, pc, reaped, flow>>

-----------------------------------------------------------------------------
(* pipe(), fork(), close() and wait().                                     *)
MakesPipe(p) ==
    /\ At(p, "pipe")
    /\ held' = [held EXCEPT ![p] = @ \cup {<<Call(p).pipe, "r">>, <<Call(p).pipe, "w">>}]
    /\ Returns(p)
    /\ UNCHANGED <<choice, fifos, life, reaped, flow>>

Forks(p) ==
    /\ At(p, "fork")
    /\ life' = [life EXCEPT ![Call(p).child] = "run"]
    /\ held' = [held EXCEPT ![Call(p).child] = held[p]]
    /\ Returns(p)
    /\ UNCHANGED <<choice, fifos, reaped, flow>>

(* The end of the program, but not when the shell forks its reader: there  *)
(* -1 passes for the pid of a child.                                       *)
ForkFails(p) ==
    /\ At(p, "fork") /\ "fork" \in Faults
    /\ IF Call(p).survives THEN Returns(p) /\ UNCHANGED <<life, held>>
                           ELSE Dies(p, "exited") /\ UNCHANGED pc
    /\ UNCHANGED <<choice, fifos, reaped, flow>>

Closes(p) ==
    /\ At(p, "close")
    /\ held' = [held EXCEPT ![p] = @ \ {<<Call(p).pipe, Call(p).end>>}]
    /\ Returns(p)
    /\ UNCHANGED <<choice, fifos, life, reaped, flow>>

(* Only the first process has children.                                    *)
Zombies == {q \in Process : life[q] \in {"exited", "killed", "SIGPIPE"}} \ (reaped \cup {1})
Children(p) == IF p = 1 /\ ~Strangers THEN {q \in Process : life[q] # "none"} \ (reaped \cup {1})
               ELSE {}

WaitsAny(p) ==
    /\ At(p, "wait") \/ (At(p, "waitfor") /\ ~background /\ life[Call(p).child] = "none")
    /\ IF Children(p) = {} THEN UNCHANGED reaped
       ELSE \E q \in Children(p) \cap Zombies : reaped' = reaped \cup {q}
    /\ Returns(p)
    /\ UNCHANGED <<choice, fifos, life, held, flow>>

WaitsFor(p) ==
    /\ At(p, "waitfor") /\ ~background /\ Call(p).child \in Zombies
    /\ reaped' = reaped \cup {Call(p).child}
    /\ Returns(p)
    /\ UNCHANGED <<choice, fifos, life, held, flow>>

(* if (!background) waitpid(...).                                          *)
GoesOn(p) ==
    /\ At(p, "waitfor") /\ background
    /\ Returns(p)
    /\ UNCHANGED <<choice, fifos, life, reaped, held, flow>>

(* "Reap defunct processes": WNOHANG until there are none.                 *)
Reaps(p) ==
    /\ At(p, "reap")
    /\ reaped' = reaped \cup (Children(p) \cap Zombies)
    /\ Returns(p)
    /\ UNCHANGED <<choice, fifos, life, held, flow>>

-----------------------------------------------------------------------------
(* write(): at most PIPE_BUF bytes go in one piece, more of them as room   *)
(* is made.                                                                *)
Atomic(n) == n <= PIPE_BUF

Bytes(b, n) == [i \in 1..n |-> b]

Written(p) == IF Call(p).op = "write" THEN <<p, messages[p] + 1>>
              ELSE IF got[p] = <<>> THEN Garbage ELSE got[p][1]

Writes(p) ==
    /\ At(p, "write") \/ At(p, "reply")
    /\ Has(p, "w") /\ Holders(Call(p).pipe, "r") # {}
    /\ LET k == Call(p).pipe
           left == Call(p).n - done[p]
           room == PIPESIZE - Len(content[k])
       IN \E n \in {left, room} :
             /\ n <= left /\ n <= room
             /\ n = left \/ (n > 0 /\ ~Atomic(Call(p).n))
             /\ content' = [content EXCEPT ![k] = @ \o Bytes(Written(p), n)]
             /\ done' = [done EXCEPT ![p] = IF n = left THEN 0 ELSE @ + n]
             /\ messages' = [messages EXCEPT ![p] = IF n = left THEN @ + 1 ELSE @]
             /\ IF n = left THEN Returns(p) ELSE UNCHANGED pc
    /\ UNCHANGED <<choice, fifos, life, reaped, held, got>>

BreaksPipe(p) ==
    /\ At(p, "write") \/ At(p, "reply")
    /\ Has(p, "w") /\ Holders(Call(p).pipe, "r") = {}
    /\ IF Call(p).n = 0 THEN Returns(p) /\ UNCHANGED <<life, held>>
                        ELSE Dies(p, "SIGPIPE") /\ UNCHANGED pc
    /\ UNCHANGED <<choice, fifos, reaped, flow>>

Reading(p) == At(p, "read") \/ At(p, "readtoend") \/ At(p, "readfor")
ReadsEnough(p) == At(p, "readfor") /\ Len(got[p]) >= Call(p).until

Reads(p) ==
    /\ Reading(p) /\ ~ReadsEnough(p)
    /\ Has(p, "r") /\ Content(p) # <<>>
    /\ LET n == IF Len(Content(p)) < Call(p).n THEN Len(Content(p)) ELSE Call(p).n
       IN /\ got' = [got EXCEPT ![p] = @ \o SubSeq(Content(p), 1, n)]
          /\ content' = [content EXCEPT ![Call(p).pipe] = SubSeq(@, n + 1, Len(@))]
    /\ IF Call(p).op = "read" THEN Returns(p) ELSE UNCHANGED pc
    /\ UNCHANGED <<choice, fifos, life, reaped, held, done, messages>>

(* The last read: nobody can write any more, or enough has been read.      *)
EndOfFile(p) ==
    /\ Reading(p)
    /\ ReadsEnough(p) \/ (Has(p, "r") /\ Content(p) = <<>> /\ Holders(Call(p).pipe, "w") = {})
    /\ Returns(p)
    /\ UNCHANGED <<choice, fifos, life, reaped, held, flow>>

(* A client whose open() failed goes on with the descriptor -1.            *)
BadDescriptor(p) ==
    /\ \/ At(p, "write") /\ ~Has(p, "w")
       \/ At(p, "read") /\ ~Has(p, "r")
    /\ Returns(p)
    /\ UNCHANGED <<choice, fifos, life, reaped, held, flow>>

-----------------------------------------------------------------------------
(* FIFOs.  open() waits for the other end, and is counted as an end while  *)
(* it waits; a FIFO stays in the file system.                              *)
MakesFifo(p) ==
    /\ At(p, "mkfifo")
    /\ fifos' = fifos \cup {Call(p).pipe}
    /\ Returns(p)
    /\ UNCHANGED <<choice, life, reaped, held, flow>>

OpenFails(p) ==
    /\ At(p, "open") /\ Call(p).pipe \notin fifos
    /\ Returns(p)
    /\ UNCHANGED <<choice, fifos, life, reaped, held, flow>>

Other(e) == IF e = "r" THEN "w" ELSE "r"
Opening(k, e) == {p \in Process : At(p, "open") /\ Call(p) = Open(k, e) /\ Has(p, e)}

Opens(p) ==
    /\ At(p, "open") /\ Call(p).pipe \in fifos /\ ~Has(p, Call(p).end)
    /\ LET k == Call(p).pipe
           e == Call(p).end
       IN /\ held' = [held EXCEPT ![p] = @ \cup {<<k, e>>}]
          /\ content' = IF Holders(k, "r") \cup Holders(k, "w") = {}
                        THEN [content EXCEPT ![k] = <<>>] ELSE content
          /\ IF Holders(k, Other(e)) = {} THEN UNCHANGED pc
             ELSE pc' = [q \in Process |-> IF q = p \/ q \in Opening(k, Other(e))
                                           THEN pc[q] + 1 ELSE pc[q]]
    /\ UNCHANGED <<choice, fifos, life, reaped, done, messages, got>>

-----------------------------------------------------------------------------
Step(p) == \/ Exit(p) \/ MakesPipe(p) \/ Forks(p) \/ ForkFails(p) \/ Closes(p)
           \/ WaitsAny(p) \/ WaitsFor(p) \/ GoesOn(p) \/ Reaps(p)
           \/ Writes(p) \/ BreaksPipe(p) \/ Reads(p) \/ EndOfFile(p) \/ BadDescriptor(p)
           \/ MakesFifo(p) \/ OpenFails(p) \/ Opens(p)

PipesNext == \E p \in Process : Start(p) \/ Kill(p) \/ Step(p)

PipesSpec == PipesInit /\ [][PipesNext]_pipesVars

(* A process that was started runs when it can.                            *)
PipesFairSpec == PipesSpec /\ \A p \in Process : WF_pipesVars(Step(p))

-----------------------------------------------------------------------------
(* Properties.                                                             *)

PipesTypeOK ==
    /\ program \in Programs /\ size \in Sizes \cup {0} /\ background \in BOOLEAN
    /\ fifos \subseteq Pipe
    /\ pc \in [Process -> 1..15]
    /\ life \in [Process -> {"none", "run", "exited", "killed", "SIGPIPE"}]
    /\ reaped \subseteq Process
    /\ held \in [Process -> SUBSET Ends]
    /\ content \in [Pipe -> Seq((0..5) \X (0..3))]
    /\ done \in [Process -> Nat] /\ messages \in [Process -> 0..3]
    /\ got \in [Process -> Seq((0..5) \X (0..3))]

Killed == \E p \in Process : life[p] = "killed"

(* Pipe1.c, Pipe2.c, PipeSample.c: each read() has returned one whole      *)
(* message, in order, and the third is the last.                           *)
WholeMessages ==
    program \in {"Pipe1", "Pipe2"} =>
        /\ Len(got[1]) % MSGSIZE = 0
        /\ \A i \in 1..Len(got[1]) : got[1][i][2] = (i - 1) \div MSGSIZE + 1
        /\ life[1] = "exited" /\ ~Killed /\ pc[1] > Len(Script(1)) =>
               Len(got[1]) = 3 * MSGSIZE

(* Pipe3.c, Pipe4.c, Pipe5.c, PipeWriteBlock.c: a reader that comes to its *)
(* end has all the bytes its writer has written.                           *)
ReadToTheEnd ==
    \A p, q \in {1, 2} :
        /\ program \in {"Pipe3", "Pipe4", "Pipe5", "block"} /\ p # q
        /\ life[p] = "exited" /\ got[p] # <<>> /\ ~Killed
        => content[1] = <<>> /\ done[q] = 0 /\ got[q] = <<>>

(* SIGPIPE: never without a death, among relatives, and never to a command *)
(* of the shell, which keeps the read end open itself; to a client whose   *)
(* server has had its one message, or to a server whose clients have gone. *)
SigpipeOnlyWhenGone ==
    \A p \in Process : life[p] = "SIGPIPE" =>
        IF Strangers THEN \E q \in Server \cup Client : life[q] # "run" /\ life[q] # "none" /\ q # p
        ELSE Killed /\ program \notin {"block", "shell"}

(* FakeShell.c: the shell takes up the second command when the reader of   *)
(* the first is through, unless that was to run in the background; without *)
(* a reader, when the command is.                                          *)
ForegroundFirst ==
    program = "shell" /\ ~background /\ life[4] # "none" =>
        \/ life[3] \notin {"none", "run"}
        \/ life[3] = "none" /\ life[2] # "run"

(* PipeClient2.c: what a client that is alone with a server gets is its own*)
(* word; among others it may be the word of another, or what the buffer of *)
(* a server without a word happens to hold.                                *)
OwnAnswer ==
    \A c \in Client :
        program = "full" /\ got[c] # <<>> =>
            /\ got[c][1] = Garbage \/ \E d \in Client : got[c][1] = <<d, 1>> /\ messages[d] = 1
            /\ (\A q \in Client \ {c} : life[q] = "none") /\ (\E s \in Server : life[s] = "none")
               => got[c] = <<(<<c, 1>>)>>

(* What comes out of a pipe is what its writers meant for its readers.     *)
PipesDeliver == /\ PipesTypeOK /\ WholeMessages /\ ReadToTheEnd /\ SigpipeOnlyWhenGone
                /\ ForegroundFirst /\ OwnAnswer

(* Everybody ends, but in these cases, and these only:                     *)
(*   - PipeWriteBlock.c, where nobody closes an end: one process has been  *)
(*     killed, and the other holds both ends of the pipe it waits for;     *)
(*   - FakeShell.c: a command that has more to say than its reader has read*)
(*     and the pipe holds, and the shell, if it waits for that command;    *)
(*   - a FIFO whose other side is not there;                               *)
(*   - PipeServer2.c and PipeClient2.c, when there have been several of a  *)
(*     kind: each may then wait for what another one has taken; or when the*)
(*     client came before the server had made NP1, did not notice, and now *)
(*     opens NP2 while the server opens NP1.                               *)
Ended(p) == ~Running(p) \/ (program = "shell" /\ p = 1 /\ pc[1] > Len(Script(1)))
Gushes(p) == /\ program = "shell" /\ p \in {2, 4} /\ ~Running(p + 1)
             /\ size - Len(got[p + 1]) > PIPESIZE
Excused(p) ==
    \/ program = "block" /\ Killed
    \/ Gushes(p)
    \/ program = "shell" /\ p = 1 /\ \E q \in {2, 4} : Gushes(q) /\ life[q + 1] = "none"
    \/ Strangers /\ p \in Client /\ ~\E s \in Server : Running(s)
    \/ Strangers /\ p \in Server /\ ~\E c \in Client : Running(c)
    \/ program = "full" /\ \E kind \in {Server, Client} : \A q \in kind : life[q] # "none"
    \/ program = "full" /\ \E c \in Client : Running(c) /\ pc[c] > 1 /\ <<1, "w">> \notin held[c]
PipesEnd == <>[](\A p \in Process : Ended(p) \/ Excused(p))

=============================================================================
