------------------------------- MODULE Deploy -------------------------------
(***************************************************************************)
(* The agent installer's three steps: choose an asset, choose a system and *)
(* ask for an enrollment key, take the script.  The answer of the key's    *)
(* request sets the key and jumps to step 3 from wherever the user is; the *)
(* script is put together from the asset chosen by then.                   *)
(***************************************************************************)
CONSTANTS Assets, Systems

VARIABLES
    step, selectedOS, selectedAsset,
    agentToken,     \* the asset whose key is held
    tokenMut,       \* the assets whose keys are being asked for
    asked,          \* history: the asset asked for last
    strayed         \* history: another asset was chosen as its key was awaited

vars == <<step, selectedOS, selectedAsset, agentToken, tokenMut, asked, strayed>>

DeployTypeOK ==
    /\ step \in {1, 2, 3}
    /\ selectedOS \in Systems \union {"none"}
    /\ {selectedAsset, agentToken, asked} \subseteq Assets \union {"none"}
    /\ tokenMut \subseteq Assets
    /\ strayed \in BOOLEAN

Init ==
    /\ step = 1 /\ selectedOS = "none" /\ selectedAsset = "none"
    /\ agentToken = "none" /\ tokenMut = {} /\ asked = "none"
    /\ strayed = FALSE

SelectAsset(a) ==
    /\ step = 1
    /\ selectedAsset' = a /\ step' = 2
    /\ strayed' = (tokenMut # {} /\ a # asked)
    /\ UNCHANGED <<selectedOS, agentToken, tokenMut, asked>>

SelectOS(os) ==
    /\ step = 2
    /\ selectedOS' = os
    /\ UNCHANGED <<step, selectedAsset, agentToken, tokenMut, asked, strayed>>

Back ==
    /\ step = 2 /\ step' = 1
    /\ UNCHANGED <<selectedOS, selectedAsset, agentToken, tokenMut, asked, strayed>>

\* A button that may be pressed again while a key is awaited.
MayGenerateAgain == selectedOS # "none"
\* The button is off without a system and while a key is awaited.
MayGenerate == selectedOS # "none" /\ tokenMut = {}
Generate ==
    /\ step = 2 /\ MayGenerate
    /\ tokenMut' = tokenMut \union {selectedAsset}
    /\ asked' = selectedAsset /\ strayed' = FALSE
    /\ UNCHANGED <<step, selectedOS, selectedAsset, agentToken>>

KeyArrives(a) ==
    /\ a \in tokenMut /\ tokenMut' = tokenMut \ {a}
    /\ agentToken' = a /\ step' = 3
    /\ UNCHANGED <<selectedOS, selectedAsset, asked, strayed>>

KeyRefused(a) ==
    /\ a \in tokenMut /\ tokenMut' = tokenMut \ {a}
    /\ UNCHANGED <<step, selectedOS, selectedAsset, agentToken, asked, strayed>>

reset ==
    /\ step = 3
    /\ step' = 1 /\ selectedOS' = "none" /\ selectedAsset' = "none"
    /\ agentToken' = "none"
    /\ UNCHANGED <<tokenMut, asked, strayed>>

Next ==
    \/ Back \/ Generate \/ reset
    \/ \E a \in Assets : SelectAsset(a) \/ KeyArrives(a) \/ KeyRefused(a)
    \/ \E os \in Systems : SelectOS(os)

Spec == Init /\ [][Next]_vars

-----------------------------------------------------------------------------
\* A script is only shown complete, and the key in it is of the asset asked
\* for last.  It names that asset too unless the user went back and chose
\* another one while the key was awaited: then it would enroll the machine of
\* the second as the first.
KeyFits ==
    step = 3 => /\ selectedOS # "none" /\ selectedAsset # "none"
                /\ agentToken = asked
                /\ selectedAsset = agentToken \/ strayed
=============================================================================
