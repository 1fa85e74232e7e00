---------------------------------- MODULE Lab ----------------------------------
(***************************************************************************)
(* scripts/lab-up.sh and scripts/lab-down.sh: two network namespaces, the  *)
(* veth pair between them, and the server process of each lab-up.  Every   *)
(* command may fail, a script may be interrupted between any two, and the  *)
(* server is a background process that the script does not wait for.       *)
(*                                                                         *)
(* A name refers to an instance of a namespace, numbered by the lab-up     *)
(* that created it.  Processes stay in an instance whose name is deleted,  *)
(* and it lasts as long as one of them or its name.                        *)
(***************************************************************************)
EXTENDS Integers, Sequences, FiniteSets

CONSTANTS
    Groups,    \* the groups lab-up verifies, in its order
    Tries,     \* probes before lab-up gives up on the server (40)
    Jobs,      \* processes that other scripts run in the client namespace
    MaxUps,    \* bound: calls of lab-up
    MaxCalls   \* bound: calls of lab-up and lab-down together

ASSUME LabAssumption ==
    /\ Len(Groups) \in Nat \ {0} /\ Tries \in Nat \ {0}
    /\ MaxUps \in Nat /\ MaxCalls \in Nat

VARIABLES
    script,   \* the lab script that runs: what it does next, what it knows
    ups,      \* lab-ups so far: the number of the current one
    downs,    \* lab-downs so far
    named,    \* the instance each namespace's name refers to, 0 without one
    link,     \* how far each lab-up got with its veth pair
    peer,     \* the server instance a client instance was connected to
    servers,  \* the server of each lab-up
    homes     \* the instance each job's process is in, 0 if there is none

labVars == <<script, ups, downs, named, link, peer, servers, homes>>
network == <<named, link, peer>>
counters == <<ups, downs>>

Spaces == {"client", "server"}
Server == [state : {"none", "launched", "running", "listening", "gone"},
           at : 0..MaxUps]

LabInit ==
    /\ script = [pc |-> "idle", ns |-> "client", tries |-> 0, verified |-> <<>>,
                 listed |-> {}, missed |-> {}, said |-> "nothing"]
    /\ ups = 0 /\ downs = 0
    /\ named = [ns \in Spaces |-> 0]
    /\ link = [k \in 1..MaxUps |-> "none"]
    /\ peer = [k \in 1..MaxUps |-> 0]
    /\ servers = [k \in 1..MaxUps |-> [state |-> "none", at |-> 0]]
    /\ homes = [j \in Jobs |-> 0]

At(pc) == script.pc = pc
Then(pc) == script' = [script EXCEPT !.pc = pc]
End(said) ==
    script' = [script EXCEPT !.pc = "idle", !.ns = "client", !.tries = 0,
                             !.verified = <<>>, !.listed = {}, !.missed = {},
                             !.said = said]

\* An instance lasts while it has its name, or a process is in it.
ClientThere(k) == named["client"] = k \/ \E j \in Jobs : homes[j] = k
ServerThere(k) ==
    \/ named["server"] = k
    \/ \E s \in 1..MaxUps : servers[s].at = k /\ servers[s].state # "gone"

\* set -e ends a script at a command that fails, and a signal ends it where it
\* is.  What fails in a condition or before || is the business of the script.
CommandFails ==
    /\ script.pc \notin {"idle", "wait", "verify", "list", "kill"}
    /\ End("failed")
    /\ UNCHANGED <<counters, network, servers, homes>>
Interrupted ==
    /\ ~At("idle") /\ End("failed")
    /\ UNCHANGED <<counters, network, servers, homes>>
-----------------------------------------------------------------------------
(* lab-up.sh.                                                              *)

UpStart ==
    /\ At("idle") /\ ups < MaxUps /\ ups + downs < MaxCalls
    /\ ups' = ups + 1
    /\ script' = [script EXCEPT !.pc = "check", !.verified = <<>>,
                             !.missed = {}, !.said = "nothing"]
    /\ UNCHANGED <<downs, network, servers, homes>>

UpRefused ==
    /\ At("check") /\ named["client"] # 0 /\ End("failed")
    /\ UNCHANGED <<counters, network, servers, homes>>

AddClient ==
    /\ At("check") /\ named["client"] = 0
    /\ named' = [named EXCEPT !["client"] = ups] /\ Then("add server")
    /\ UNCHANGED <<counters, link, peer, servers, homes>>

\* Mutant: a server namespace that is there already is used.
AddServerIfMissing ==
    /\ At("add server")
    /\ named' = [named EXCEPT !["server"] = IF @ = 0 THEN ups ELSE @]
    /\ Then("add link")
    /\ UNCHANGED <<counters, link, peer, servers, homes>>

\* What a lab-down that was interrupted has left makes the command fail.
AddServer ==
    /\ At("add server") /\ named["server"] = 0
    /\ named' = [named EXCEPT !["server"] = ups] /\ Then("add link")
    /\ UNCHANGED <<counters, link, peer, servers, homes>>

\* A pair goes with the instance that one of its ends is in.
EndInHost(k) == link[k] = "host" \/ (link[k] = "split" /\ ClientThere(k))

\* Fails while the host itself has an interface of one of the names.
AddLink ==
    /\ At("add link") /\ \A k \in 1..MaxUps : ~EndInHost(k)
    /\ link' = [link EXCEPT ![ups] = "host"] /\ Then("move client")
    /\ UNCHANGED <<counters, named, peer, servers, homes>>
MoveClient ==
    /\ At("move client") /\ link' = [link EXCEPT ![ups] = "split"]
    /\ Then("move server")
    /\ UNCHANGED <<counters, named, peer, servers, homes>>
MoveServer ==
    /\ At("move server") /\ link' = [link EXCEPT ![ups] = "joined"]
    /\ Then("configure")
    /\ UNCHANGED <<counters, named, peer, servers, homes>>

\* Six commands: the addresses, then the interfaces up.
Configure ==
    /\ At("configure")
    /\ peer' = [peer EXCEPT ![named["client"]] = named["server"]]
    /\ Then("launch")
    /\ UNCHANGED <<counters, named, link, servers, homes>>

Launch ==
    /\ At("launch") /\ Then("wait")
    /\ servers' = [servers EXCEPT ![ups] = [state |-> "launched", at |-> 0]]
    /\ UNCHANGED <<counters, network, homes>>

\* The servers that a process in a client instance reaches: at most one.
Reached(home) ==
    {k \in 1..MaxUps : /\ servers[k].state = "listening" /\ home # 0
                       /\ servers[k].at = peer[home]}

\* Mutant: the probes are not counted.
UncountedProbe ==
    /\ At("wait")
    /\ IF Reached(named["client"]) # {} THEN Then("verify")
       ELSE UNCHANGED script
    /\ UNCHANGED <<counters, network, servers, homes>>

\* Mutant: one probe more than the loop makes.
OneProbeMore ==
    /\ At("wait")
    /\ IF Reached(named["client"]) # {} THEN Then("verify")
       ELSE IF script.tries < Tries
       THEN script' = [script EXCEPT !.tries = @ + 1]
       ELSE End("failed")
    /\ UNCHANGED <<counters, network, servers, homes>>

Probe ==
    /\ At("wait")
    /\ IF Reached(named["client"]) # {} THEN Then("verify")
       ELSE IF script.tries + 1 < Tries
       THEN script' = [script EXCEPT !.tries = @ + 1]
       ELSE End("failed")
    /\ UNCHANGED <<counters, network, servers, homes>>

\* One handshake with each group in turn, each by a client of its own.
Verifies(k) ==
    LET verified == Append(script.verified, k)
        last == Len(verified) = Len(Groups)
    IN  script' = [script EXCEPT
            !.verified = verified, !.tries = IF last THEN 0 ELSE @,
            !.pc = IF last THEN "idle" ELSE @,
            !.said = IF last THEN "ready" ELSE @]
Verify ==
    /\ At("verify")
    /\ (\E k \in Reached(named["client"]) : Verifies(k)) \/ End("failed")
    /\ UNCHANGED <<counters, network, servers, homes>>
-----------------------------------------------------------------------------
(* The server: sudo and ip netns exec, then s_server.                      *)

Became(k, state) == servers' = [servers EXCEPT ![k].state = state]

ServerEnters(k) ==
    /\ servers[k].state = "launched" /\ named["server"] # 0
    /\ servers' = [servers EXCEPT ![k] = [state |-> "running",
                                          at |-> named["server"]]]
    /\ UNCHANGED <<script, counters, network, homes>>

\* The address has to be there, and the port free.
ServerListens(k) ==
    /\ servers[k].state = "running"
    /\ \E home \in 1..MaxUps : peer[home] = servers[k].at /\ ClientThere(home)
    /\ \A other \in 1..MaxUps : servers[other].at = servers[k].at =>
          servers[other].state # "listening"
    /\ Became(k, "listening")
    /\ UNCHANGED <<script, counters, network, homes>>

\* It cannot enter or listen, or it crashes.
ServerDies(k) ==
    /\ servers[k].state \in {"launched", "running", "listening"}
    /\ Became(k, "gone")
    /\ UNCHANGED <<script, counters, network, homes>>
-----------------------------------------------------------------------------
(* lab-down.sh: one namespace after the other.                             *)

DownStart ==
    /\ At("idle") /\ ups + downs < MaxCalls
    /\ downs' = downs + 1
    /\ script' = [script EXCEPT !.pc = "list", !.verified = <<>>,
                             !.missed = {}, !.said = "nothing"]
    /\ UNCHANGED <<ups, network, servers, homes>>

NextSpace(missed) ==
    LET last == script.ns = "server"
    IN  script' = [script EXCEPT
            !.pc = IF last THEN "idle" ELSE "list",
            !.ns = IF last THEN "client" ELSE "server",
            !.listed = {}, !.missed = missed,
            !.said = IF last THEN "stopped" ELSE @]

\* Mutant: without the client namespace there is no lab to stop.
DownSkipBoth ==
    /\ At("list") /\ named[script.ns] = 0
    /\ End("stopped")
    /\ UNCHANGED <<counters, network, servers, homes>>

DownSkip ==
    /\ At("list") /\ named[script.ns] = 0 /\ NextSpace(script.missed)
    /\ UNCHANGED <<counters, network, servers, homes>>

\* ip netns list fails: to the if that is a namespace which is not there.
DownMiss ==
    /\ At("list") /\ NextSpace(script.missed \cup {script.ns})
    /\ UNCHANGED <<counters, network, servers, homes>>

\* A listing that fails in the process substitution is an empty one.
DownList ==
    /\ At("list") /\ named[script.ns] # 0
    /\ \E listed \in {{}, IF script.ns = "client"
                           THEN {j \in Jobs : homes[j] = named["client"]}
                           ELSE {k \in 1..MaxUps :
                                    /\ servers[k].at = named["server"]
                                    /\ servers[k].state # "gone"}} :
          script' = [script EXCEPT !.pc = "kill", !.listed = listed]
    /\ UNCHANGED <<counters, network, servers, homes>>

\* What has entered the namespace since it was listed is not killed, and a kill
\* may fail (|| true).
DownKill ==
    /\ At("kill") /\ Then("delete")
    /\ \E killed \in SUBSET script.listed :
          IF script.ns = "client"
            THEN /\ homes' = [j \in Jobs |-> IF j \in killed THEN 0
                                             ELSE homes[j]]
                 /\ UNCHANGED servers
            ELSE /\ servers' = [k \in 1..MaxUps |->
                       IF k \in killed
                         THEN [servers[k] EXCEPT !.state = "gone"]
                         ELSE servers[k]]
                 /\ UNCHANGED homes
    /\ UNCHANGED <<counters, network>>

DownDelete ==
    /\ At("delete") /\ NextSpace(script.missed)
    /\ named' = [named EXCEPT ![script.ns] = 0]
    /\ UNCHANGED <<counters, link, peer, servers, homes>>
-----------------------------------------------------------------------------
\* What the scripts do themselves.
ScriptStep ==
    \/ UpRefused \/ AddClient \/ AddServer \/ AddLink \/ MoveClient
    \/ MoveServer \/ Configure \/ Launch \/ Probe \/ Verify
    \/ DownSkip \/ DownMiss \/ DownList \/ DownKill \/ DownDelete
    \/ CommandFails

LabNext ==
    \/ UpStart \/ DownStart \/ ScriptStep \/ Interrupted
    \/ \E k \in 1..MaxUps : ServerEnters(k) \/ ServerListens(k) \/ ServerDies(k)
-----------------------------------------------------------------------------
Scripts ==
    [pc : {"idle", "check", "add server", "add link", "move client",
           "move server", "configure", "launch", "wait", "verify",
           "list", "kill", "delete"},
     ns : Spaces, tries : 0..(Tries - 1), verified : Seq(1..MaxUps),
     listed : SUBSET (Jobs \cup 1..MaxUps), missed : SUBSET Spaces,
     said : {"nothing", "failed", "ready", "stopped"}]

LabTypeOK ==
    /\ script \in Scripts
    /\ ups \in 0..MaxUps /\ downs \in 0..MaxCalls
    /\ named \in [Spaces -> 0..MaxUps]
    /\ link \in [1..MaxUps -> {"none", "host", "split", "joined"}]
    /\ peer \in [1..MaxUps -> 0..MaxUps]
    /\ servers \in [1..MaxUps -> Server]
    /\ homes \in [Jobs -> 0..MaxUps]

\* "The lab is ready and all experimental groups were verified": each group was
\* verified by the server that this very lab-up started, whatever interrupted
\* scripts have left.  The exception is a server that was launched by an
\* earlier lab-up and got as far as the namespace only in this one.
ReadyLabIsOwn ==
    script.said = "ready" =>
        /\ Len(script.verified) = Len(Groups)
        /\ \A i \in DOMAIN script.verified :
              LET k == script.verified[i]
              IN  k = ups \/ servers[k].at > k

\* "Lab stopped": no namespace is left, also none of a lab-up or lab-down that
\* was interrupted or failed, except where ip netns list itself failed: of that
\* the script takes no notice.
StoppedMeansGone ==
    script.said = "stopped" =>
        \A ns \in Spaces : named[ns] = 0 \/ ns \in script.missed

\* A lab script ends: the probes are limited, and no command waits for another.
ScriptsEnd == [](~At("idle") => <>At("idle"))
=============================================================================
