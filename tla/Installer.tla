------------------------------ MODULE Installer ------------------------------
(***************************************************************************)
(* One machine and the scripts of the deploy page that are run on it: the  *)
(* program is fetched, the configuration with the key is written, the      *)
(* service registered and started.  A key stops being valid when another   *)
(* is asked for; its scripts remain, and may be run, run again, cut off by *)
(* a reboot, or run while an agent is up.                                  *)
(***************************************************************************)
EXTENDS Naturals

CONSTANT MaxKeys        \* bound: keys handed out for the asset

VARIABLES
    system,     \* the operating system of the machine
    keys,       \* keys handed out so far; the last one is valid
    script,     \* where the running or last script is, and its key
    binary,     \* vizeye-agent: none, partial or whole
    config,     \* the key in config.yaml: 0 without a file, Torn if cut off
    service,    \* the service is registered to start with the machine
    agent,      \* the key of the agent that is up, 0 without one
    report,     \* what the last script said in the end
    cutOff,     \* history: a fetch or a script broke off, none has ended well since
    rose        \* history: the agent came up after the script's fetch

installed == <<binary, config, service>>
vars == <<system, keys, script, installed, agent, report, cutOff, rose>>

Torn == MaxKeys + 1
Unused == [at |-> "idle", key |-> 0]

-----------------------------------------------------------------------------
(***************************************************************************)
(* The scripts, by system.  stops: set -e, the first failing command ends  *)
(* the script.  replaces: whether the program can be written while it      *)
(* runs.  known: the directory of the service file is there.  confirms:    *)
(* the script asks whether the agent is up before it says so.  keeps: the  *)
(* service manager lets the program run (the one of Windows ends what does *)
(* not report to it).  revives: it starts it again after a failure.        *)
(***************************************************************************)
Linux == [stops |-> TRUE, replaces |-> {FALSE}, known |-> TRUE,
          confirms |-> TRUE, keeps |-> TRUE, revives |-> TRUE]
FreeBSD == [Linux EXCEPT !.known = FALSE]
MacOS == [stops |-> TRUE, replaces |-> BOOLEAN, known |-> TRUE,
          confirms |-> FALSE, keeps |-> TRUE, revives |-> TRUE]
Windows == [stops |-> FALSE, replaces |-> {FALSE}, known |-> TRUE,
            confirms |-> FALSE, keeps |-> FALSE, revives |-> FALSE]

\* Variant: the first line of the script is left out.
ScriptLenient ==
    [linux |-> [Linux EXCEPT !.stops = FALSE], freebsd |-> FreeBSD,
     darwin |-> MacOS, windows |-> Windows]

Script == [linux |-> Linux, freebsd |-> FreeBSD, darwin |-> MacOS,
           windows |-> Windows]

This == Script[system]

InstallerTypeOK ==
    /\ system \in DOMAIN Script
    /\ keys \in 1 .. MaxKeys
    /\ script \in [at : {"idle", "fetch", "config", "service", "start", "report"},
                   key : 0 .. MaxKeys]
    /\ binary \in {"none", "partial", "whole"}
    /\ config \in 0 .. Torn
    /\ agent \in 0 .. MaxKeys
    /\ report \in {"none", "installed", "failed"}
    /\ service \in BOOLEAN /\ cutOff \in BOOLEAN /\ rose \in BOOLEAN

Init ==
    /\ system \in DOMAIN Script
    /\ keys = 1 /\ script = Unused
    /\ binary = "none" /\ config = 0 /\ service = FALSE
    /\ agent = 0 /\ report = "none"
    /\ cutOff = FALSE /\ rose = FALSE

-----------------------------------------------------------------------------
\* What main and Load make of the files: an agent with the file's key, or an
\* exit, without the program, the file, or a key in it.
Load == IF binary = "whole" /\ config \in 1 .. MaxKeys THEN config ELSE 0

generateAgentToken ==
    /\ keys < MaxKeys /\ keys' = keys + 1
    /\ UNCHANGED <<system, script, installed, agent, report, cutOff, rose>>

Run(k) ==
    /\ script.at = "idle" /\ k <= keys
    /\ script' = [at |-> "fetch", key |-> k]
    /\ report' = "none"
    /\ UNCHANGED <<system, keys, installed, agent, cutOff, rose>>

To(at) == script' = [script EXCEPT !.at = at]

GoOn(at) == To(at) /\ UNCHANGED report

\* A command failed: the script ends there, or goes on as if it had not.
Failed(at) ==
    IF This.stops THEN To("idle") /\ report' = "failed" ELSE GoOn(at)

Fetch ==
    /\ script.at = "fetch"
    /\ agent = 0 \/ TRUE \in This.replaces
    /\ binary' = "whole" /\ GoOn("config")
    /\ UNCHANGED <<system, keys, config, service, agent, cutOff, rose>>

\* The file is held by the running agent, no tool to fetch it with is there,
\* or the backend has no such file.
FetchRefused ==
    /\ script.at = "fetch"
    /\ Failed("config")
    /\ UNCHANGED <<system, keys, installed, agent, cutOff, rose>>

FetchBreaksOff ==
    /\ script.at = "fetch" /\ agent = 0
    /\ binary' = "partial" /\ cutOff' = TRUE /\ Failed("config")
    /\ UNCHANGED <<system, keys, config, service, agent, rose>>

WriteConfig ==
    /\ script.at = "config"
    /\ config' = script.key /\ GoOn("service")
    /\ UNCHANGED <<system, keys, binary, service, agent, cutOff, rose>>

\* The unit file, daemon-reload and enable; the plist; sc.exe create.
Register ==
    /\ script.at = "service"
    /\ IF This.known
       THEN GoOn("start") /\ service' = TRUE
       ELSE Failed("start") /\ UNCHANGED service
    /\ UNCHANGED <<system, keys, binary, config, agent, cutOff, rose>>

\* A service that is up is left as it is.
Start ==
    /\ script.at = "start" /\ GoOn("report")
    /\ agent' = IF agent = 0 /\ This.keeps THEN Load ELSE agent
    /\ UNCHANGED <<system, keys, installed, cutOff, rose>>

Report ==
    /\ script.at = "report" /\ To("idle")
    /\ report' = IF This.confirms /\ agent = 0 THEN "failed" ELSE "installed"
    /\ cutOff' = (cutOff /\ binary # "whole")
    /\ UNCHANGED <<system, keys, installed, agent, rose>>

-----------------------------------------------------------------------------
(***************************************************************************)
(* The machine.                                                            *)
(***************************************************************************)
AgentExits ==
    /\ agent # 0 /\ agent' = 0 /\ rose' = FALSE
    /\ UNCHANGED <<system, keys, script, installed, report, cutOff>>

\* The manager's retry, or the user's start.
AgentRises ==
    /\ agent = 0 /\ service /\ This.revives /\ Load # 0
    /\ agent' = Load /\ rose' = (rose \/ script.at = "config")
    /\ UNCHANGED <<system, keys, script, installed, report, cutOff>>

\* A reboot cuts the script off, perhaps as it writes the configuration.
Reboot ==
    /\ config' \in {config} \union {c \in {Torn} : script.at = "config"}
    /\ To("idle") /\ agent' = 0 /\ rose' = FALSE
    /\ cutOff' = (cutOff \/ script.at # "idle")
    /\ UNCHANGED <<system, keys, binary, service, report>>

Next ==
    \/ generateAgentToken
    \/ \E k \in 1 .. MaxKeys : Run(k)
    \/ Fetch \/ FetchRefused \/ FetchBreaksOff \/ WriteConfig \/ Register
    \/ Start \/ Report
    \/ AgentExits \/ AgentRises \/ Reboot

Spec == Init /\ [][Next]_vars

-----------------------------------------------------------------------------
\* A script that says it installed the agent has left its own key in the
\* configuration.  An agent that is up has the key of the configuration, or
\* came up, on Linux, while a later script was between its fetch and its
\* configuration.  A registered service can be started, unless a fetch or a
\* script was cut off since the last success.
InstallKeeps ==
    /\ report = "installed" => config = script.key
    /\ agent \notin {0, config} /\ system = "linux" => rose
    /\ service /\ Load = 0 => cutOff \/ ~This.stops
=============================================================================
