---------------------------- MODULE MCAgentHost -----------------------------
(***************************************************************************)
(* A host of the agent for TLC: a collection of all collectors, the        *)
(* network collector's arithmetic, and the agent's installation.  They     *)
(* share no variable, so a behaviour of one beside the others shows        *)
(* nothing new: topic, chosen at the start, says which of them moves.      *)
(***************************************************************************)
EXTENDS Collectors

CONSTANTS Ifaces, Width, MaxBurst, MaxAge, MaxKeys

\* The last conjunct is what the provers do not know of powers.
ASSUME NetRateAssumption ==
    /\ Width \in Nat \ {0}
    /\ MaxBurst \in Nat
    /\ MaxAge \in Nat
    /\ 2 ^ Width \in Nat \ {0}

ASSUME InstallerAssumption == MaxKeys \in Nat \ {0}

VARIABLES
    topic, counter, present, prevSample, since, rate, moved, age, odd, truth,
    system, keys, script, binary, config, service, agent, report, cutOff, rose

Net == INSTANCE NetRate
Install == INSTANCE Installer
netVars == <<counter, present, prevSample, since, rate, moved, age, odd, truth>>
installVars == <<system, keys, script, binary, config, service, agent, report, cutOff, rose>>

allVars == <<topic, vars, netVars, installVars>>

MCInit ==
    /\ topic \in {"collectors", "network", "install"}
    /\ Init /\ Net!Init /\ Install!Init
    /\ topic # "install" => system = "linux"

Alone == topic = "collectors" /\ UNCHANGED <<topic, netVars, installVars>>

MCNext ==
    \/ Alone /\ Next
    \/ topic = "network" /\ Net!Next /\ UNCHANGED <<topic, vars, installVars>>
    \/ topic = "install" /\ Install!Next /\ UNCHANGED <<topic, vars, netVars>>

MCProgress == Alone /\ Progress
MCExpire == Alone /\ Expire
MCEnds(w) == Alone /\ Ends(w)
MCAnswers(w) == Alone /\ (Send(w) \/ Done(w))

MCSpec ==
    /\ MCInit /\ [][MCNext]_allVars
    /\ WF_allVars(MCProgress) /\ WF_allVars(MCExpire)
    /\ \A w \in Workers : WF_allVars(MCEnds(w)) /\ WF_allVars(MCAnswers(w))

\* Types of the three parts, as their modules declare them.
MCTypeOK == TypeOK /\ Net!TypeOK /\ Install!InstallerTypeOK

\* Rates: NetRate says when the number shown is the traffic there was.
RateTrue == Net!RateTrue

\* Installation: Installer says what a finished script has left behind, which
\* key an agent that is up has, and whether its service can be started.
InstallKeeps == Install!InstallKeeps
=============================================================================
