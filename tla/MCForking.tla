----------------------------- MODULE MCForking ------------------------------
(***************************************************************************)
(* The two kinds of parents that count their children, in one model: the   *)
(* echo servers of ForkServer and the programs of Children.  They have     *)
(* nothing to do with each other.  The first state says which kind runs;   *)
(* the other kind stays in one of its initial states.                      *)
(***************************************************************************)
EXTENDS ForkServer, Children

VARIABLE family                   \* the kind that runs; never changes

allVars == <<serverVars, vars, family>>

ServersRun == family = "servers" /\ UNCHANGED <<vars, family>>
ParentsRun == family = "parents" /\ UNCHANGED <<serverVars, family>>

ForkingInit ==
    /\ ServerInit /\ Init
    /\ \/ family = "servers" /\ program = "shell" /\ nchilds = 0
       \/ family = "parents" /\ version = "Fork"

ForkingNext ==
    \/ ServerMain /\ ServersRun
    \/ Loop /\ ServersRun
    \/ Interrupted /\ ServersRun
    \/ \E c \in Client : ChildExits(c) /\ ServersRun
    \/ Main /\ ParentsRun
    \/ Handler /\ ParentsRun
    \/ \E c \in Child : ChildEnds(c) /\ ParentsRun

(* Fairness is that of Children!FairSpec.                                  *)
ForkingSpec ==
    /\ ForkingInit /\ [][ForkingNext]_allVars
    /\ WF_allVars(Main /\ ParentsRun) /\ WF_allVars(Handler /\ ParentsRun)
    /\ \A c \in Child : WF_allVars(ChildEnds(c) /\ ParentsRun)

(* The parents of Children come to their end but in the named cases, in    *)
(* the behaviours in which they run.                                       *)
ParentsEnd == family = "parents" => ParentEnds

=============================================================================
