------------------------------- MODULE LabProofs -------------------------------
(***************************************************************************)
(* Theorems about the lab in its composition with the measuring scripts,   *)
(* for any number of calls, tries, groups, processes and shapings.         *)
(***************************************************************************)
EXTENDS LabWorkloads, TLAPS, FiniteSetTheorems

Building == {"add link", "move client", "move server", "configure", "launch",
             "wait", "verify"}
Rising == Building \cup {"check", "add server"}
Falling == {"list", "kill", "delete"}

\* Namespaces are numbered by lab-ups; the current one works on its own pair.
InstancesInv ==
    /\ \A ns \in Spaces : named[ns] <= ups
    /\ script.pc \in Rising => ups >= 1
    /\ At("add server") => named["client"] = ups
    /\ script.pc \in Building => named["client"] = ups /\ named["server"] = ups
    /\ script.pc \in {"launch", "wait", "verify"} => peer[ups] = ups

\* A server enters the namespace of its lab-up, or that of a later one.
ServersInv ==
    \A k \in 1..MaxUps :
        /\ servers[k].state \in {"none", "launched"} => servers[k].at = 0
        /\ servers[k].state \in {"running", "listening"} => servers[k].at >= k
        /\ servers[k].state = "launched" =>
              named["server"] = 0 \/ named["server"] >= k
        /\ servers[k].state \in {"launched", "running", "listening"} => k <= ups

VerifiedInv ==
    /\ ~At("idle") => script.said = "nothing"
    /\ script.pc \in Rising \ {"verify"} => script.verified = <<>>
    /\ At("verify") \/ script.said = "ready" =>
          \A i \in DOMAIN script.verified :
              LET k == script.verified[i]
              IN  k = ups \/ servers[k].at > k
    /\ script.said = "ready" => Len(script.verified) = Len(Groups)

\* A lab-down that has come to the server namespace has deleted the client's,
\* or missed it.
PassedInv ==
    script.ns = "server" =>
        /\ script.pc \in Falling
        /\ named["client"] = 0 \/ "client" \in script.missed

LabInv == /\ LabTypeOK /\ InstancesInv /\ ServersInv /\ VerifiedInv /\ PassedInv
          /\ StoppedMeansGone
-----------------------------------------------------------------------------
\* There is a group to verify and a probe to make; a script starts afresh.
LEMMA LabBounds == /\ Len(Groups) \in Nat \ {0} /\ Tries \in Nat \ {0}
                   /\ MaxUps \in Nat /\ MaxCalls \in Nat
                   /\ 0 \in 0..(Tries - 1) /\ 0 \in 0..MaxUps
                   /\ <<>> \in Seq(1..MaxUps)
                   /\ {} \in SUBSET (Jobs \cup 1..MaxUps)
  BY LabAssumption

\* Lab-ups are counted by natural numbers.
LEMMA LabUps == LabInv => ups \in Nat
  BY LabBounds DEF LabInv, LabTypeOK

\* What a sequence holds.
LEMMA SeqElements ==
    ASSUME NEW S, NEW s \in Seq(S)
    PROVE  \A i \in DOMAIN s : s[i] \in S
  OBVIOUS

\* No lab, and nothing said.
LEMMA InitLabInv == LabInit => LabInv
  BY LabBounds DEF LabInit, LabInv, LabTypeOK, Scripts, InstancesInv, ServersInv,
     VerifiedInv, PassedInv, StoppedMeansGone, Server, Spaces, At, Rising,
     Building, Falling

\* A lab-up begins: it gets a number no namespace has.
LEMMA UpStartInv ==
    ASSUME LabInv, UpStart
    PROVE  LabInv'
  <1> USE DEF UpStart, At, network, counters, Spaces, LabInv, LabTypeOK,
          Scripts, Server
  <1>1. LabTypeOK'
    <2>1. ups' \in 0..MaxUps /\ downs' \in 0..MaxCalls
      <3> HIDE DEF Scripts
      <3> QED  BY LabBounds
    <2>2. script' \in Scripts
      BY LabBounds
    <2>3. /\ named' \in [Spaces -> 0..MaxUps] /\ link' = link
          /\ peer' = peer /\ servers' = servers /\ homes' = homes
      BY LabBounds
    <2> QED
      BY <2>1, <2>2, <2>3
  <1>2. InstancesInv'
    <2>1. script'.pc = "check"
      BY LabBounds
    <2>2. ups \in Nat /\ ups' = ups + 1
      <3> HIDE DEF Scripts
      <3> QED  BY LabBounds
    <2>3. \A ns \in Spaces : named'[ns] \in 0..MaxUps /\ named'[ns] <= ups
      BY LabBounds DEF InstancesInv
    <2> HIDE DEF UpStart, Scripts, LabInv, LabTypeOK, Spaces
    <2> QED
      BY <2>1, <2>2, <2>3 DEF InstancesInv, Rising, Building
  <1>3. ServersInv'
    <2>1. ups \in Nat /\ ups' = ups + 1
      <3> HIDE DEF Scripts
      <3> QED  BY LabBounds
    <2>2. servers' = servers /\ named' = named /\ ServersInv
      BY LabBounds
    <2> HIDE DEF UpStart, Scripts, LabInv, LabTypeOK, Spaces, Server
    <2> QED
      BY <2>1, <2>2 DEF ServersInv
  <1>4. VerifiedInv'
    BY LabBounds DEF VerifiedInv, ServersInv, InstancesInv, Rising, Building,
          Falling
  <1>5. PassedInv'
    BY LabBounds DEF PassedInv, InstancesInv, Rising, Building, Falling
  <1>6. StoppedMeansGone'
    BY LabBounds DEF StoppedMeansGone, PassedInv, VerifiedInv, Rising, Building,
          Falling
  <1> QED  BY <1>1, <1>2, <1>3, <1>4, <1>5, <1>6

\* It finds a lab, and ends.
LEMMA UpRefusedInv ==
    ASSUME LabInv, UpRefused
    PROVE  LabInv'
  <1> USE DEF UpRefused, At, network, counters, Spaces, LabInv, LabTypeOK,
          Scripts, Server, End
  <1>1. LabTypeOK'
    BY LabBounds DEF InstancesInv, Rising, Building
  <1>2. InstancesInv'
    BY LabBounds DEF InstancesInv, Rising, Building, Falling
  <1>3. ServersInv'
    BY LabBounds DEF ServersInv, InstancesInv, Rising, Building, Falling
  <1>4. VerifiedInv'
    BY LabBounds DEF VerifiedInv, ServersInv, InstancesInv, Rising, Building,
          Falling
  <1>5. PassedInv'
    BY LabBounds DEF PassedInv, InstancesInv, Rising, Building, Falling
  <1>6. StoppedMeansGone'
    BY LabBounds DEF StoppedMeansGone, PassedInv, VerifiedInv, Rising, Building,
          Falling
  <1> QED  BY <1>1, <1>2, <1>3, <1>4, <1>5, <1>6

\* It makes the client namespace, which is its own.
LEMMA AddClientInv ==
    ASSUME LabInv, AddClient
    PROVE  LabInv'
  <1> USE DEF AddClient, At, network, counters, Spaces, LabInv, LabTypeOK,
          Scripts, Server, Then
  <1>1. LabTypeOK'
    BY LabBounds DEF InstancesInv, Rising, Building
  <1>2. InstancesInv'
    <2>1. script'.pc = "add server" /\ ups' = ups
      BY LabBounds
    <2>2. ups \in Nat
      <3> HIDE DEF LabInv
      <3> QED  BY LabUps
    <2>3. named' = [named EXCEPT !["client"] = ups]
      BY LabBounds
    <2>4. ups >= 1
      <3> HIDE DEF Scripts, LabTypeOK
      <3> QED  BY <2>2 DEF InstancesInv, Rising
    <2>5. \A ns \in Spaces : named[ns] <= ups
      <3> HIDE DEF Scripts, LabTypeOK, Spaces, AddClient
      <3> QED  BY DEF InstancesInv
    <2>6. named \in [Spaces -> 0..MaxUps]
      BY LabBounds
    <2>7. \A ns \in Spaces : named'[ns] <= ups
      <3> HIDE DEF AddClient, Scripts, LabInv, LabTypeOK
      <3> QED  BY <2>2, <2>3, <2>5, <2>6
    <2>8. named'["client"] = ups
      <3> HIDE DEF AddClient, Scripts, LabInv, LabTypeOK
      <3> QED  BY <2>3, <2>6
    <2> HIDE DEF AddClient, Scripts, LabInv, LabTypeOK
    <2> QED
      BY <2>1, <2>2, <2>3, <2>4, <2>5, <2>6, <2>7, <2>8 DEF InstancesInv, Rising, Building
  <1>3. ServersInv'
    BY LabBounds DEF ServersInv, InstancesInv, Rising, Building, Falling
  <1>4. VerifiedInv'
    BY LabBounds DEF VerifiedInv, ServersInv, InstancesInv, Rising, Building,
          Falling
  <1>5. PassedInv'
    BY LabBounds DEF PassedInv, InstancesInv, Rising, Building, Falling
  <1>6. StoppedMeansGone'
    BY LabBounds DEF StoppedMeansGone, PassedInv, VerifiedInv, Rising, Building,
          Falling
  <1> QED  BY <1>1, <1>2, <1>3, <1>4, <1>5, <1>6

\* It makes the server namespace; its pair is complete.
LEMMA AddServerInv ==
    ASSUME LabInv, AddServer
    PROVE  LabInv'
  <1> USE DEF AddServer, At, network, counters, Spaces, LabInv, LabTypeOK,
          Scripts, Server, Then
  <1>1. LabTypeOK'
    BY LabBounds DEF InstancesInv, Rising, Building
  <1>2. InstancesInv'
    BY LabBounds DEF InstancesInv, Rising, Building, Falling
  <1>3. ServersInv'
    BY LabBounds DEF ServersInv, InstancesInv, Rising, Building, Falling
  <1>4. VerifiedInv'
    BY LabBounds DEF VerifiedInv, ServersInv, InstancesInv, Rising, Building,
          Falling
  <1>5. PassedInv'
    BY LabBounds DEF PassedInv, InstancesInv, Rising, Building, Falling
  <1>6. StoppedMeansGone'
    BY LabBounds DEF StoppedMeansGone, PassedInv, VerifiedInv, Rising, Building,
          Falling
  <1> QED  BY <1>1, <1>2, <1>3, <1>4, <1>5, <1>6

\* The veth pair is in the host.
LEMMA AddLinkInv ==
    ASSUME LabInv, AddLink
    PROVE  LabInv'
  <1> USE DEF AddLink, At, network, counters, Spaces, LabInv, LabTypeOK,
          Scripts, Server, Then
  <1>1. LabTypeOK'
    BY LabBounds DEF InstancesInv, Rising, Building
  <1>2. InstancesInv'
    BY LabBounds DEF InstancesInv, Rising, Building, Falling
  <1>3. ServersInv'
    BY LabBounds DEF ServersInv, InstancesInv, Rising, Building, Falling
  <1>4. VerifiedInv'
    BY LabBounds DEF VerifiedInv, ServersInv, InstancesInv, Rising, Building,
          Falling
  <1>5. PassedInv'
    BY LabBounds DEF PassedInv, InstancesInv, Rising, Building, Falling
  <1>6. StoppedMeansGone'
    BY LabBounds DEF StoppedMeansGone, PassedInv, VerifiedInv, Rising, Building,
          Falling
  <1> QED  BY <1>1, <1>2, <1>3, <1>4, <1>5, <1>6

\* One end is in its client namespace.
LEMMA MoveClientInv ==
    ASSUME LabInv, MoveClient
    PROVE  LabInv'
  <1> USE DEF MoveClient, At, network, counters, Spaces, LabInv, LabTypeOK,
          Scripts, Server, Then
  <1>1. LabTypeOK'
    BY LabBounds DEF InstancesInv, Rising, Building
  <1>2. InstancesInv'
    BY LabBounds DEF InstancesInv, Rising, Building, Falling
  <1>3. ServersInv'
    BY LabBounds DEF ServersInv, InstancesInv, Rising, Building, Falling
  <1>4. VerifiedInv'
    BY LabBounds DEF VerifiedInv, ServersInv, InstancesInv, Rising, Building,
          Falling
  <1>5. PassedInv'
    BY LabBounds DEF PassedInv, InstancesInv, Rising, Building, Falling
  <1>6. StoppedMeansGone'
    BY LabBounds DEF StoppedMeansGone, PassedInv, VerifiedInv, Rising, Building,
          Falling
  <1> QED  BY <1>1, <1>2, <1>3, <1>4, <1>5, <1>6

\* The other end is in its server namespace.
LEMMA MoveServerInv ==
    ASSUME LabInv, MoveServer
    PROVE  LabInv'
  <1> USE DEF MoveServer, At, network, counters, Spaces, LabInv, LabTypeOK,
          Scripts, Server, Then
  <1>1. LabTypeOK'
    BY LabBounds DEF InstancesInv, Rising, Building
  <1>2. InstancesInv'
    BY LabBounds DEF InstancesInv, Rising, Building, Falling
  <1>3. ServersInv'
    BY LabBounds DEF ServersInv, InstancesInv, Rising, Building, Falling
  <1>4. VerifiedInv'
    BY LabBounds DEF VerifiedInv, ServersInv, InstancesInv, Rising, Building,
          Falling
  <1>5. PassedInv'
    BY LabBounds DEF PassedInv, InstancesInv, Rising, Building, Falling
  <1>6. StoppedMeansGone'
    BY LabBounds DEF StoppedMeansGone, PassedInv, VerifiedInv, Rising, Building,
          Falling
  <1> QED  BY <1>1, <1>2, <1>3, <1>4, <1>5, <1>6

\* Its client is connected to its server.
LEMMA ConfigureInv ==
    ASSUME LabInv, Configure
    PROVE  LabInv'
  <1> USE DEF Configure, At, network, counters, Spaces, LabInv, LabTypeOK,
          Scripts, Server, Then
  <1>1. LabTypeOK'
    BY LabBounds DEF InstancesInv, Rising, Building
  <1>2. InstancesInv'
    <2>1. script'.pc = "launch" /\ named' = named /\ ups' = ups
      BY LabBounds
    <2>2. /\ named["client"] = ups /\ named["server"] = ups /\ ups \in 1..MaxUps
          /\ \A ns \in Spaces : named[ns] <= ups
      <3> HIDE DEF Scripts
      <3> QED  BY LabBounds DEF InstancesInv, Rising, Building
    <2>3. peer'[ups] = ups
      BY LabBounds, <2>2
    <2> HIDE DEF Configure, Scripts, LabInv, LabTypeOK
    <2> QED
      BY <2>1, <2>2, <2>3 DEF InstancesInv, Rising, Building
  <1>3. ServersInv'
    BY LabBounds DEF ServersInv, InstancesInv, Rising, Building, Falling
  <1>4. VerifiedInv'
    BY LabBounds DEF VerifiedInv, ServersInv, InstancesInv, Rising, Building,
          Falling
  <1>5. PassedInv'
    BY LabBounds DEF PassedInv, InstancesInv, Rising, Building, Falling
  <1>6. StoppedMeansGone'
    BY LabBounds DEF StoppedMeansGone, PassedInv, VerifiedInv, Rising, Building,
          Falling
  <1> QED  BY <1>1, <1>2, <1>3, <1>4, <1>5, <1>6

\* Its server is launched; it can enter its own namespace, or a later one.
LEMMA LaunchInv ==
    ASSUME LabInv, Launch
    PROVE  LabInv'
  <1> USE DEF Launch, At, network, counters, Spaces, LabInv, LabTypeOK,
          Scripts, Server, Then
  <1>1. LabTypeOK'
    BY LabBounds DEF InstancesInv, Rising, Building
  <1>2. InstancesInv'
    BY LabBounds DEF InstancesInv, Rising, Building, Falling
  <1>3. ServersInv'
    <2>1. /\ servers' = [servers EXCEPT ![ups] = [state |-> "launched", at |-> 0]]
          /\ UNCHANGED <<ups, named>> /\ ServersInv
          /\ servers \in [1..MaxUps -> Server]
      BY LabBounds
    <2>2. named["server"] = ups /\ ups \in Nat
      <3>1. ups \in Nat
        <4> HIDE DEF LabInv
        <4> QED  BY LabUps
      <3> HIDE DEF Scripts, LabTypeOK, Spaces
      <3> QED  BY <3>1 DEF InstancesInv, Building
    <2> HIDE DEF Launch, Scripts, LabInv, LabTypeOK, Server
    <2> QED  BY <2>1, <2>2 DEF ServersInv
  <1>4. VerifiedInv'
    BY LabBounds DEF VerifiedInv, ServersInv, InstancesInv, Rising, Building,
          Falling
  <1>5. PassedInv'
    BY LabBounds DEF PassedInv, InstancesInv, Rising, Building, Falling
  <1>6. StoppedMeansGone'
    BY LabBounds DEF StoppedMeansGone, PassedInv, VerifiedInv, Rising, Building,
          Falling
  <1> QED  BY <1>1, <1>2, <1>3, <1>4, <1>5, <1>6

\* A probe, or the last one failing, leaves the network alone.
LEMMA ProbeInv ==
    ASSUME LabInv, Probe
    PROVE  LabInv'
  <1> USE DEF Probe, At, network, counters, Spaces, LabInv, LabTypeOK,
          Scripts, Server, Then, End, Reached
  <1>1. LabTypeOK'
    <2>1. script' \in Scripts
      <3>1. CASE Reached(named["client"]) # {}
        BY LabBounds, <3>1
      <3>2. CASE Reached(named["client"]) = {} /\ script.tries + 1 < Tries
        <4>1. script.tries \in 0..(Tries - 1)
          OBVIOUS
        <4>2. script.tries + 1 \in 0..(Tries - 1)
          <5> HIDE DEF Scripts, LabInv, LabTypeOK
          <5> QED  BY LabBounds, <3>2, <4>1
        <4> QED  BY LabBounds, <3>2, <4>2
      <3>3. CASE Reached(named["client"]) = {} /\ ~(script.tries + 1 < Tries)
        BY LabBounds, <3>3
      <3> QED  BY LabBounds, <3>1, <3>2, <3>3
    <2> QED  BY LabBounds, <2>1
  <1>2. InstancesInv'
    BY LabBounds DEF InstancesInv, Rising, Building, Falling
  <1>3. ServersInv'
    BY LabBounds DEF ServersInv, InstancesInv, Rising, Building, Falling
  <1>4. VerifiedInv'
    <2>1. script.said = "nothing" /\ script.verified = <<>>
      BY LabBounds DEF VerifiedInv, Rising, Building
    <2>2. script'.verified = <<>> /\ script'.said # "ready"
      BY LabBounds, <2>1
    <2>3. script'.pc # "idle" => script'.said = "nothing"
      BY LabBounds, <2>1
    <2> HIDE DEF Probe, LabInv, Scripts
    <2> QED  BY LabBounds, <2>2, <2>3 DEF VerifiedInv
  <1>5. PassedInv'
    BY LabBounds DEF PassedInv, InstancesInv, Rising, Building, Falling
  <1>6. StoppedMeansGone'
    BY LabBounds DEF StoppedMeansGone, PassedInv, VerifiedInv, Rising, Building,
          Falling
  <1> QED  BY <1>1, <1>2, <1>3, <1>4, <1>5, <1>6

\* What answers in its pair is its server, or one that was late to enter.
LEMMA VerifyInv ==
    ASSUME LabInv, Verify
    PROVE  LabInv'
  <1> USE DEF Verify, At, network, counters, Spaces, LabInv, LabTypeOK,
          Scripts, Server, End, Reached
  <1>1. LabTypeOK'
    <2>1. script' \in Scripts
      <3>1. CASE End("failed")
        BY LabBounds, <3>1
      <3>2. CASE ~End("failed")
        <4>1. PICK k \in 1..MaxUps : Verifies(k)
          BY LabBounds, <3>2 DEF Verifies
        <4>2. script.verified \in Seq(1..MaxUps)
          OBVIOUS
        <4>3. Append(script.verified, k) \in Seq(1..MaxUps)
          <5> HIDE DEF Scripts, LabInv, LabTypeOK, Server
          <5> QED  BY <4>1, <4>2
        <4> QED  BY LabBounds, <4>1, <4>3 DEF Verifies
      <3> QED  BY LabBounds, <3>1, <3>2
    <2> QED  BY LabBounds, <2>1
  <1>2. InstancesInv'
    BY LabBounds DEF InstancesInv, Rising, Building, Falling
  <1>3. ServersInv'
    BY LabBounds DEF ServersInv, InstancesInv, Rising, Building, Falling
  <1>4. VerifiedInv'
    <2>1. CASE End("failed")
      BY LabBounds, <2>1 DEF VerifiedInv
    <2>2. CASE ~End("failed")
      <3>1. PICK k \in Reached(named["client"]) : Verifies(k)
        BY LabBounds, <2>2 DEF Verifies
      <3>2. servers[k].state = "listening" /\ servers[k].at = ups /\ k \in 1..MaxUps
        BY LabBounds, <3>1 DEF InstancesInv, Building
      <3>3. k = ups \/ servers[k].at > k
        <4>1. servers[k].at >= k
          BY <3>2 DEF ServersInv
        <4>2. ups \in Nat
          <5> HIDE DEF Scripts
          <5> QED  BY LabBounds
        <4>3. k \in Nat
          <5> HIDE DEF Scripts, LabInv, LabTypeOK, Server, Verify
          <5> QED  BY LabBounds, <3>2
        <4> HIDE DEF Scripts, LabInv, LabTypeOK, Server, Verify
        <4> QED  BY <3>2, <4>1, <4>2, <4>3
      <3>4. script.verified \in Seq(1..MaxUps)
        OBVIOUS
      <3>5. \A i \in DOMAIN script.verified :
               script.verified[i] = ups
                 \/ servers[script.verified[i]].at > script.verified[i]
        BY LabBounds DEF VerifiedInv
      <3>6. /\ script'.verified = Append(script.verified, k)
            /\ script'.pc # "idle" => script'.said = "nothing" /\ script'.pc = "verify"
            /\ script'.said = "ready" => Len(script'.verified) = Len(Groups)
            /\ servers' = servers /\ ups' = ups
        BY LabBounds, <3>1 DEF Verifies, VerifiedInv
      <3>7. \A i \in DOMAIN script'.verified :
               script'.verified[i] = ups
                 \/ servers[script'.verified[i]].at > script'.verified[i]
        <4> HIDE DEF Verify, LabInv, LabTypeOK, Reached
        <4> QED  BY LabBounds, <3>3, <3>4, <3>5, <3>6
      <3> HIDE DEF Verify, LabInv, LabTypeOK, Reached
      <3> QED  BY LabBounds, <3>6, <3>7 DEF VerifiedInv, Rising, Building
    <2> QED  BY LabBounds, <2>1, <2>2
  <1>5. PassedInv'
    <2>1. CASE End("failed")
      BY LabBounds, <2>1 DEF PassedInv, StoppedMeansGone, VerifiedInv, Rising, Building, Falling
    <2>2. CASE ~End("failed")
      <3>1. PICK k \in 1..MaxUps : Verifies(k)
        BY <2>2
      <3> QED  BY LabBounds, <3>1 DEF Verifies, PassedInv, StoppedMeansGone, VerifiedInv, Falling
    <2> QED  BY <2>1, <2>2
  <1>6. StoppedMeansGone'
    <2>1. CASE End("failed")
      BY LabBounds, <2>1 DEF PassedInv, StoppedMeansGone, VerifiedInv, Rising, Building, Falling
    <2>2. CASE ~End("failed")
      <3>1. PICK k \in 1..MaxUps : Verifies(k)
        BY <2>2
      <3> QED  BY LabBounds, <3>1 DEF Verifies, PassedInv, StoppedMeansGone, VerifiedInv, Falling
    <2> QED  BY <2>1, <2>2
  <1> QED  BY <1>1, <1>2, <1>3, <1>4, <1>5, <1>6

\* A lab-down begins with the client namespace.
LEMMA DownStartInv ==
    ASSUME LabInv, DownStart
    PROVE  LabInv'
  <1> USE DEF DownStart, At, network, counters, Spaces, LabInv, LabTypeOK,
          Scripts, Server
  <1>1. LabTypeOK'
    <2>1. downs' \in 0..MaxCalls /\ ups' = ups
      <3> HIDE DEF Scripts
      <3> QED  BY LabBounds
    <2>2. script' \in Scripts
      BY LabBounds
    <2>3. /\ named' = named /\ link' = link
          /\ peer' = peer /\ servers' = servers /\ homes' = homes
      BY LabBounds
    <2> QED
      BY <2>1, <2>2, <2>3
  <1>2. InstancesInv'
    BY LabBounds DEF InstancesInv, Rising, Building, Falling
  <1>3. ServersInv'
    BY LabBounds DEF ServersInv, InstancesInv, Rising, Building, Falling
  <1>4. VerifiedInv'
    BY LabBounds DEF VerifiedInv, ServersInv, InstancesInv, Rising, Building,
          Falling
  <1>5. PassedInv'
    BY LabBounds DEF PassedInv, InstancesInv, Rising, Building, Falling
  <1>6. StoppedMeansGone'
    BY LabBounds DEF StoppedMeansGone, PassedInv, VerifiedInv, Rising, Building,
          Falling
  <1> QED  BY <1>1, <1>2, <1>3, <1>4, <1>5, <1>6

\* It finds no such namespace and goes on, or is done.
LEMMA DownSkipInv ==
    ASSUME LabInv, DownSkip
    PROVE  LabInv'
  <1> USE DEF DownSkip, At, network, counters, Spaces, LabInv, LabTypeOK,
          Scripts, Server, NextSpace
  <1>1. LabTypeOK'
    <2>1. script' \in Scripts
      BY LabBounds
    <2> QED  BY LabBounds, <2>1
  <1>2. InstancesInv'
    <2>1. script'.pc \in {"idle", "list"}
      BY LabBounds
    <2>2. named' = named /\ ups' = ups /\ peer' = peer
      BY LabBounds
    <2> HIDE DEF DownSkip, Scripts, LabTypeOK, NextSpace
    <2> QED
      BY <2>1, <2>2 DEF InstancesInv, Rising, Building
  <1>3. ServersInv'
    BY LabBounds DEF ServersInv, InstancesInv, Rising, Building, Falling
  <1>4. VerifiedInv'
    <2>1. /\ script'.pc \in {"idle", "list"} /\ script'.said # "ready"
          /\ script'.pc = "list" => script'.said = "nothing"
      BY LabBounds DEF VerifiedInv
    <2> HIDE DEF DownSkip, LabInv, LabTypeOK, Scripts, NextSpace
    <2> QED
      BY <2>1 DEF VerifiedInv, Rising, Building
  <1>5. PassedInv'
    BY LabBounds DEF PassedInv, InstancesInv, Rising, Building, Falling
  <1>6. StoppedMeansGone'
    BY LabBounds DEF StoppedMeansGone, PassedInv, VerifiedInv, Rising, Building,
          Falling
  <1> QED  BY <1>1, <1>2, <1>3, <1>4, <1>5, <1>6

\* It takes a namespace that it could not look for as one that is not there.
LEMMA DownMissInv ==
    ASSUME LabInv, DownMiss
    PROVE  LabInv'
  <1> USE DEF DownMiss, At, network, counters, Spaces, LabInv, LabTypeOK,
          Scripts, Server, NextSpace
  <1>1. LabTypeOK'
    <2>1. script' \in Scripts
      BY LabBounds
    <2> QED  BY LabBounds, <2>1
  <1>2. InstancesInv'
    <2>1. script'.pc \in {"idle", "list"}
      BY LabBounds
    <2>2. named' = named /\ ups' = ups /\ peer' = peer
      BY LabBounds
    <2> HIDE DEF DownMiss, Scripts, LabTypeOK, NextSpace
    <2> QED
      BY <2>1, <2>2 DEF InstancesInv, Rising, Building
  <1>3. ServersInv'
    BY LabBounds DEF ServersInv, InstancesInv, Rising, Building, Falling
  <1>4. VerifiedInv'
    <2>1. /\ script'.pc \in {"idle", "list"} /\ script'.said # "ready"
          /\ script'.pc = "list" => script'.said = "nothing"
      BY LabBounds DEF VerifiedInv
    <2> HIDE DEF DownMiss, LabInv, LabTypeOK, Scripts, NextSpace
    <2> QED
      BY <2>1 DEF VerifiedInv, Rising, Building
  <1>5. PassedInv'
    BY LabBounds DEF PassedInv, InstancesInv, Rising, Building, Falling
  <1>6. StoppedMeansGone'
    <2>1. /\ script'.said = "stopped" => script.ns = "server"
          /\ script'.missed = script.missed \cup {script.ns} /\ named' = named
      BY LabBounds DEF VerifiedInv
    <2>2. script.ns = "server" => named["client"] = 0 \/ "client" \in script.missed
      BY DEF PassedInv
    <2> HIDE DEF DownMiss, Scripts, LabInv, LabTypeOK, NextSpace
    <2> QED  BY <2>1, <2>2 DEF StoppedMeansGone
  <1> QED  BY <1>1, <1>2, <1>3, <1>4, <1>5, <1>6

\* It lists the processes in the namespace.
LEMMA DownListInv ==
    ASSUME LabInv, DownList
    PROVE  LabInv'
  <1> USE DEF DownList, At, network, counters, Spaces, LabInv, LabTypeOK,
          Scripts, Server
  <1>1. LabTypeOK'
    <2>1. PICK listed \in SUBSET (Jobs \cup 1..MaxUps) :
             script' = [script EXCEPT !.pc = "kill", !.listed = listed]
      <3> HIDE DEF Scripts, LabInv, LabTypeOK, Spaces, Server
      <3> QED  BY Zenon
    <2>2. script' \in Scripts
      BY <2>1
    <2>3. LabTypeOK /\ UNCHANGED <<counters, network, servers, homes>>
      OBVIOUS
    <2> HIDE DEF DownList, Scripts, LabInv, Spaces, Server
    <2> QED  BY <2>2, <2>3
  <1>2. InstancesInv'
    BY LabBounds DEF InstancesInv, Rising, Building, Falling
  <1>3. ServersInv'
    BY LabBounds DEF ServersInv, InstancesInv, Rising, Building, Falling
  <1>4. VerifiedInv'
    <2>1. /\ script'.pc = "kill" /\ script'.said = script.said
          /\ script'.verified = script.verified
      BY LabBounds
    <2>2. script.said = "nothing"
      BY DEF VerifiedInv
    <2> HIDE DEF DownList, Scripts, LabInv, LabTypeOK, Spaces, Server
    <2> QED  BY <2>1, <2>2 DEF VerifiedInv, Rising, Building
  <1>5. PassedInv'
    BY LabBounds DEF PassedInv, InstancesInv, Rising, Building, Falling
  <1>6. StoppedMeansGone'
    BY LabBounds DEF StoppedMeansGone, PassedInv, VerifiedInv, Rising, Building,
          Falling
  <1> QED  BY <1>1, <1>2, <1>3, <1>4, <1>5, <1>6

\* It kills those that it has listed.
LEMMA DownKillInv ==
    ASSUME LabInv, DownKill
    PROVE  LabInv'
  <1> USE DEF DownKill, At, network, counters, Spaces, LabInv, LabTypeOK,
          Scripts, Server, Then
  <1>1. LabTypeOK'
    <2>1. script' \in Scripts
      BY LabBounds
    <2>2. homes' \in [Jobs -> 0..MaxUps]
      <3>1. PICK killed \in SUBSET script.listed :
               \/ homes' = [j \in Jobs |-> IF j \in killed THEN 0 ELSE homes[j]]
               \/ homes' = homes
        OBVIOUS
      <3>2. homes \in [Jobs -> 0..MaxUps] /\ 0 \in 0..MaxUps
        BY LabBounds
      <3> HIDE DEF Scripts, LabInv, LabTypeOK, DownKill, Server
      <3> QED  BY <3>1, <3>2
    <2>3. servers' \in [1..MaxUps -> Server]
      <3>1. PICK killed \in SUBSET script.listed :
               \/ servers' = [k \in 1..MaxUps |->
                      IF k \in killed THEN [servers[k] EXCEPT !.state = "gone"]
                      ELSE servers[k]]
               \/ servers' = servers
        OBVIOUS
      <3>2. servers \in [1..MaxUps -> Server]
        OBVIOUS
      <3>3. \A k \in 1..MaxUps : [servers[k] EXCEPT !.state = "gone"] \in Server
        <4> HIDE DEF Scripts, LabInv, LabTypeOK, DownKill
        <4> QED  BY <3>2
      <3> HIDE DEF Scripts, LabInv, LabTypeOK, DownKill, Server
      <3> QED  BY <3>1, <3>2, <3>3
    <2> QED  BY LabBounds, <2>1, <2>2, <2>3
  <1>2. InstancesInv'
    BY LabBounds DEF InstancesInv, Rising, Building, Falling
  <1>3. ServersInv'
    <2>1. \A k \in 1..MaxUps :
             servers'[k] = servers[k]
               \/ servers'[k] = [servers[k] EXCEPT !.state = "gone"]
      <3>1. PICK killed \in SUBSET script.listed :
               \/ servers' = [k \in 1..MaxUps |->
                      IF k \in killed THEN [servers[k] EXCEPT !.state = "gone"]
                      ELSE servers[k]]
               \/ servers' = servers
        OBVIOUS
      <3> HIDE DEF Scripts, LabInv, LabTypeOK, DownKill, Server
      <3> QED  BY <3>1
    <2>2. servers \in [1..MaxUps -> Server]
      BY LabBounds
    <2>3. named' = named /\ ups' = ups /\ ServersInv
      BY LabBounds
    <2>4. \A k \in 1..MaxUps :
             /\ servers'[k].at = servers[k].at
             /\ servers'[k].state \in {servers[k].state, "gone"}
      <3> HIDE DEF Scripts, LabInv, LabTypeOK, DownKill
      <3> QED  BY <2>1, <2>2
    <2> HIDE DEF Scripts, LabInv, LabTypeOK, DownKill, Server
    <2> QED  BY <2>3, <2>4 DEF ServersInv
  <1>4. VerifiedInv'
    BY LabBounds DEF VerifiedInv, ServersInv, InstancesInv, Rising, Building,
          Falling
  <1>5. PassedInv'
    BY LabBounds DEF PassedInv, InstancesInv, Rising, Building, Falling
  <1>6. StoppedMeansGone'
    BY LabBounds DEF StoppedMeansGone, PassedInv, VerifiedInv, Rising, Building,
          Falling
  <1> QED  BY <1>1, <1>2, <1>3, <1>4, <1>5, <1>6

\* It deletes the name of the namespace.
LEMMA DownDeleteInv ==
    ASSUME LabInv, DownDelete
    PROVE  LabInv'
  <1> USE DEF DownDelete, At, network, counters, Spaces, LabInv, LabTypeOK,
          Scripts, Server, NextSpace
  <1>1. LabTypeOK'
    BY LabBounds DEF InstancesInv, Rising, Building
  <1>2. InstancesInv'
    <2>1. script'.pc \in {"idle", "list"}
      BY LabBounds
    <2>2. ups' = ups /\ ups \in Nat
      <3> HIDE DEF LabInv
      <3> QED  BY LabUps
    <2>3. \A ns \in Spaces : named'[ns] <= ups
      <3> HIDE DEF Scripts
      <3> QED  BY LabBounds DEF InstancesInv
    <2> HIDE DEF DownDelete, Scripts, LabTypeOK, LabInv, NextSpace, Spaces
    <2> QED
      BY <2>1, <2>2, <2>3 DEF InstancesInv, Rising, Building
  <1>3. ServersInv'
    BY LabBounds DEF ServersInv, InstancesInv, Rising, Building, Falling
  <1>4. VerifiedInv'
    <2>1. /\ script'.pc \in {"idle", "list"} /\ script'.said # "ready"
          /\ script'.pc = "list" => script'.said = "nothing"
      BY LabBounds DEF VerifiedInv
    <2> HIDE DEF DownDelete, LabInv, LabTypeOK, Scripts, NextSpace
    <2> QED
      BY <2>1 DEF VerifiedInv, Rising, Building
  <1>5. PassedInv'
    BY LabBounds DEF PassedInv, InstancesInv, Rising, Building, Falling
  <1>6. StoppedMeansGone'
    BY LabBounds DEF StoppedMeansGone, PassedInv, VerifiedInv, Rising, Building,
          Falling
  <1> QED  BY <1>1, <1>2, <1>3, <1>4, <1>5, <1>6

\* A command fails and ends its script.
LEMMA CommandFailsInv ==
    ASSUME LabInv, CommandFails
    PROVE  LabInv'
  <1> USE DEF CommandFails, At, network, counters, Spaces, LabInv, LabTypeOK,
          Scripts, Server, End
  <1>1. LabTypeOK'
    BY LabBounds DEF InstancesInv, Rising, Building
  <1>2. InstancesInv'
    BY LabBounds DEF InstancesInv, Rising, Building, Falling
  <1>3. ServersInv'
    BY LabBounds DEF ServersInv, InstancesInv, Rising, Building, Falling
  <1>4. VerifiedInv'
    BY LabBounds DEF VerifiedInv, ServersInv, InstancesInv, Rising, Building,
          Falling
  <1>5. PassedInv'
    BY LabBounds DEF PassedInv, InstancesInv, Rising, Building, Falling
  <1>6. StoppedMeansGone'
    BY LabBounds DEF StoppedMeansGone, PassedInv, VerifiedInv, Rising, Building,
          Falling
  <1> QED  BY <1>1, <1>2, <1>3, <1>4, <1>5, <1>6

\* A signal ends the script.
LEMMA InterruptedInv ==
    ASSUME LabInv, Interrupted
    PROVE  LabInv'
  <1> USE DEF Interrupted, At, network, counters, Spaces, LabInv, LabTypeOK,
          Scripts, Server, End
  <1>1. LabTypeOK'
    BY LabBounds DEF InstancesInv, Rising, Building
  <1>2. InstancesInv'
    BY LabBounds DEF InstancesInv, Rising, Building, Falling
  <1>3. ServersInv'
    BY LabBounds DEF ServersInv, InstancesInv, Rising, Building, Falling
  <1>4. VerifiedInv'
    BY LabBounds DEF VerifiedInv, ServersInv, InstancesInv, Rising, Building,
          Falling
  <1>5. PassedInv'
    BY LabBounds DEF PassedInv, InstancesInv, Rising, Building, Falling
  <1>6. StoppedMeansGone'
    BY LabBounds DEF StoppedMeansGone, PassedInv, VerifiedInv, Rising, Building,
          Falling
  <1> QED  BY <1>1, <1>2, <1>3, <1>4, <1>5, <1>6

\* A server that enters does so in its lab-up's namespace or a later one.
LEMMA ServerEntersInv ==
    ASSUME LabInv, NEW n \in 1..MaxUps, ServerEnters(n)
    PROVE  LabInv'
  <1> USE DEF ServerEnters, At, network, counters, Spaces, LabInv, LabTypeOK,
          Scripts, Server
  <1>1. LabTypeOK'
    BY LabBounds DEF InstancesInv, Rising, Building
  <1>2. InstancesInv'
    BY LabBounds DEF InstancesInv, Rising, Building, Falling
  <1>3. ServersInv'
    BY LabBounds DEF ServersInv, InstancesInv, Rising, Building, Falling
  <1>4. VerifiedInv'
    <2>1. script' = script /\ ups' = ups
      BY LabBounds
    <2>2. \A k \in 1..MaxUps :
             servers[k].at > k => servers'[k].at = servers[k].at
      <3> HIDE DEF Scripts
      <3> QED  BY LabBounds DEF ServersInv
    <2>3. script.verified \in Seq(1..MaxUps)
      BY LabBounds
    <2>4. \A i \in DOMAIN script.verified : script.verified[i] \in 1..MaxUps
      <3> HIDE DEF Scripts, LabInv, LabTypeOK, Server, ServerEnters
      <3> QED  BY <2>3, SeqElements
    <2> HIDE DEF ServerEnters, LabTypeOK, Scripts
    <2> QED  BY LabBounds, <2>1, <2>2, <2>4 DEF VerifiedInv
  <1>5. PassedInv'
    BY LabBounds DEF PassedInv, InstancesInv, Rising, Building, Falling
  <1>6. StoppedMeansGone'
    BY LabBounds DEF StoppedMeansGone, PassedInv, VerifiedInv, Rising, Building,
          Falling
  <1> QED  BY <1>1, <1>2, <1>3, <1>4, <1>5, <1>6

\* A server that listens stays where it is.
LEMMA ServerListensInv ==
    ASSUME LabInv, NEW n \in 1..MaxUps, ServerListens(n)
    PROVE  LabInv'
  <1> USE DEF ServerListens, At, network, counters, Spaces, LabInv, LabTypeOK,
          Scripts, Server, Became
  <1>1. LabTypeOK'
    <2>1. servers' = [servers EXCEPT ![n].state = "listening"]
      OBVIOUS
    <2>2. servers \in [1..MaxUps -> Server]
      OBVIOUS
    <2>3. servers' \in [1..MaxUps -> Server]
      <3> HIDE DEF Scripts, LabInv, LabTypeOK, ServerListens
      <3> QED  BY <2>1, <2>2
    <2>4. LabTypeOK /\ UNCHANGED <<script, counters, network, homes>>
      OBVIOUS
    <2> HIDE DEF Scripts, LabInv, ServerListens, Server
    <2> QED  BY <2>3, <2>4
  <1>2. InstancesInv'
    BY LabBounds DEF InstancesInv, Rising, Building, Falling
  <1>3. ServersInv'
    BY LabBounds DEF ServersInv, InstancesInv, Rising, Building, Falling
  <1>4. VerifiedInv'
    <2>1. script' = script /\ ups' = ups
      BY LabBounds
    <2>2. \A k \in 1..MaxUps :
             servers[k].at > k => servers'[k].at = servers[k].at
      <3> HIDE DEF Scripts
      <3> QED  BY LabBounds DEF ServersInv
    <2>3. script.verified \in Seq(1..MaxUps)
      BY LabBounds
    <2>4. \A i \in DOMAIN script.verified : script.verified[i] \in 1..MaxUps
      <3> HIDE DEF Scripts, LabInv, LabTypeOK, Server, ServerListens
      <3> QED  BY <2>3, SeqElements
    <2> HIDE DEF ServerListens, LabTypeOK, Scripts
    <2> QED  BY LabBounds, <2>1, <2>2, <2>4 DEF VerifiedInv
  <1>5. PassedInv'
    BY LabBounds DEF PassedInv, InstancesInv, Rising, Building, Falling
  <1>6. StoppedMeansGone'
    BY LabBounds DEF StoppedMeansGone, PassedInv, VerifiedInv, Rising, Building,
          Falling
  <1> QED  BY <1>1, <1>2, <1>3, <1>4, <1>5, <1>6

\* A server that is gone stays where it was.
LEMMA ServerDiesInv ==
    ASSUME LabInv, NEW n \in 1..MaxUps, ServerDies(n)
    PROVE  LabInv'
  <1> USE DEF ServerDies, At, network, counters, Spaces, LabInv, LabTypeOK,
          Scripts, Server, Became
  <1>1. LabTypeOK'
    <2>1. servers' = [servers EXCEPT ![n].state = "gone"]
      OBVIOUS
    <2>2. servers \in [1..MaxUps -> Server]
      OBVIOUS
    <2>3. servers' \in [1..MaxUps -> Server]
      <3> HIDE DEF Scripts, LabInv, LabTypeOK, ServerDies
      <3> QED  BY <2>1, <2>2
    <2>4. LabTypeOK /\ UNCHANGED <<script, counters, network, homes>>
      OBVIOUS
    <2> HIDE DEF Scripts, LabInv, ServerDies, Server
    <2> QED  BY <2>3, <2>4
  <1>2. InstancesInv'
    BY LabBounds DEF InstancesInv, Rising, Building, Falling
  <1>3. ServersInv'
    <2>1. servers' = [servers EXCEPT ![n].state = "gone"] /\ ServersInv
      OBVIOUS
    <2>2. servers \in [1..MaxUps -> Server] /\ UNCHANGED <<ups, named>>
      OBVIOUS
    <2>3. \A k \in 1..MaxUps :
             /\ servers'[k].at = servers[k].at
             /\ servers'[k].state \in {servers[k].state, "gone"}
      <3> HIDE DEF Scripts, LabInv, LabTypeOK, ServerDies
      <3> QED  BY <2>1, <2>2
    <2> HIDE DEF Scripts, LabInv, LabTypeOK, ServerDies, Server
    <2> QED  BY <2>1, <2>2, <2>3 DEF ServersInv
  <1>4. VerifiedInv'
    <2>1. script' = script /\ ups' = ups
      BY LabBounds
    <2>2. \A k \in 1..MaxUps :
             servers[k].at > k => servers'[k].at = servers[k].at
      <3> HIDE DEF Scripts
      <3> QED  BY LabBounds DEF ServersInv
    <2>3. script.verified \in Seq(1..MaxUps)
      BY LabBounds
    <2>4. \A i \in DOMAIN script.verified : script.verified[i] \in 1..MaxUps
      <3> HIDE DEF Scripts, LabInv, LabTypeOK, Server, ServerDies
      <3> QED  BY <2>3, SeqElements
    <2> HIDE DEF ServerDies, LabTypeOK, Scripts
    <2> QED  BY LabBounds, <2>1, <2>2, <2>4 DEF VerifiedInv
  <1>5. PassedInv'
    BY LabBounds DEF PassedInv, InstancesInv, Rising, Building, Falling
  <1>6. StoppedMeansGone'
    BY LabBounds DEF StoppedMeansGone, PassedInv, VerifiedInv, Rising, Building,
          Falling
  <1> QED  BY <1>1, <1>2, <1>3, <1>4, <1>5, <1>6
-----------------------------------------------------------------------------
(* The composition: a measuring script changes where its processes are.    *)

\* Nothing but the homes of the jobs has changed.
LEMMA HomesInv ==
    ASSUME LabInv, UNCHANGED <<script, ups, downs, named, link, peer, servers>>,
           homes' \in [Jobs -> 0..MaxUps]
    PROVE  LabInv'
  <1>1. LabTypeOK'
    BY DEF LabInv, LabTypeOK
  <1>2. InstancesInv' /\ ServersInv'
    BY DEF LabInv, InstancesInv, ServersInv, At
  <1>3. VerifiedInv' /\ PassedInv' /\ StoppedMeansGone'
    BY DEF LabInv, VerifiedInv, PassedInv, StoppedMeansGone, At
  <1> QED  BY <1>1, <1>2, <1>3 DEF LabInv

\* Every step of the two lab scripts and of the servers, and their failures.
LEMMA LabNextInv == ASSUME LabInv, LabNext PROVE LabInv'
  <1>1. CASE ScriptStep
    BY <1>1, UpRefusedInv, AddClientInv, AddServerInv, AddLinkInv,
       MoveClientInv, MoveServerInv, ConfigureInv, LaunchInv, ProbeInv,
       VerifyInv, DownSkipInv, DownMissInv, DownListInv, DownKillInv, DownDeleteInv,
       CommandFailsInv DEF ScriptStep
  <1>2. CASE UpStart \/ DownStart \/ Interrupted
    BY <1>2, UpStartInv, DownStartInv, InterruptedInv
  <1>3. CASE \E k \in 1..MaxUps :
                ServerEnters(k) \/ ServerListens(k) \/ ServerDies(k)
    BY <1>3, ServerEntersInv, ServerListensInv, ServerDiesInv
  <1> QED  BY <1>1, <1>2, <1>3 DEF LabNext

\* Enter and Leave are the only steps of a measuring script that touch the lab.
LEMMA JobStepInv == ASSUME LabInv, NEW j \in Jobs, JobStep(j) PROVE LabInv'
  <1>1. homes \in [Jobs -> 0..MaxUps] /\ named["client"] \in 0..MaxUps
    BY DEF LabInv, LabTypeOK, Spaces
  <1>2. CASE Enter(j)
    <2>1. homes' \in [Jobs -> 0..MaxUps]
      BY <1>1, <1>2 DEF Enter
    <2> QED  BY <1>2, <2>1, HomesInv DEF Enter, counters, network
  <1>3. CASE Leave(j)
    <2>1. homes' \in [Jobs -> 0..MaxUps]
      BY <1>1, <1>3, LabBounds DEF Leave
    <2> QED  BY <1>3, <2>1, HomesInv DEF Leave, counters, network
  <1>4. CASE CannotEnter(j) \/ Attempt(j) \/ Killed(j)
    BY <1>1, <1>4, HomesInv DEF CannotEnter, Attempt, Killed, labVars
  <1> QED  BY <1>2, <1>3, <1>4 DEF JobStep

\* Every step of the composition, and stuttering.
LEMMA NextLabInv == ASSUME LabInv, [Next]_vars PROVE LabInv'
  <1>1. homes \in [Jobs -> 0..MaxUps]
    BY DEF LabInv, LabTypeOK
  <1>2. CASE LabNext
    BY <1>2, LabNextInv
  <1>3. CASE \E j \in Jobs : JobStep(j)
    BY <1>3, JobStepInv
  <1>4. CASE UNCHANGED labVars
    BY <1>1, <1>4, HomesInv DEF labVars
  <1>5. Reshape \/ StartThroughput \/ StartNoiseFloor \/ StartCalibration
          => UNCHANGED labVars
    BY DEF Reshape, StartThroughput, StartNoiseFloor, StartCalibration, Begin
  <1>6. TaskStep \/ Rest \/ UNCHANGED vars => UNCHANGED labVars
    BY DEF TaskStep, ReportThroughput, NextBatch, NoiseFloorFails,
           ReportCalibration, Finish, Rest, vars
  <1> QED  BY <1>2, <1>3, <1>4, <1>5, <1>6 DEF Next, WorkStep

\* The inductive invariant holds, whatever fails, is interrupted or late.
THEOREM LabInvariant == Spec => []LabInv
  <1>1. Init => LabInv
    BY InitLabInv DEF Init
  <1>2. LabInv /\ [Next]_vars => LabInv'
    BY NextLabInv
  <1> QED  BY <1>1, <1>2, PTL DEF Spec

\* A lab that lab-up.sh calls ready was verified, group by group, with the
\* server of this lab-up or with one that was late to enter its namespace.
THEOREM ReadyLabIsItsOwn == Spec => []ReadyLabIsOwn
  <1>1. LabInv => ReadyLabIsOwn
    BY DEF LabInv, VerifiedInv, ReadyLabIsOwn, At
  <1> QED  BY <1>1, LabInvariant, PTL

\* Once lab-down.sh says that the lab is stopped, no namespace is left but one
\* whose listing failed.
THEOREM StoppedLabIsGone == Spec => []StoppedMeansGone
  <1>1. LabInv => StoppedMeansGone
    BY DEF LabInv
  <1> QED  BY <1>1, LabInvariant, PTL
-----------------------------------------------------------------------------
(* The throughput report.                                                  *)

Job == [state : {"off", "called", "running", "ended"}, rows : Seq(Row),
        exit : {None, 0, 1, 15}]

Task == [kind : {"none", "throughput", "noise", "ping"}, batch : 0..Batches,
         expected : Expectations \cup {None}]

TaskTypeOK ==
    /\ task \in Task /\ shape \in DOMAIN RttOf
    /\ reshapes \in 0..MaxReshapes /\ reported \in BOOLEAN
    /\ task.kind = "ping" => task.expected \in Expectations

\* A worker that ended well has printed a row for each of its handshakes.
JobsInv ==
    /\ job \in [Jobs -> Job]
    /\ task.kind = "throughput" =>
          \A j \in Jobs : /\ Len(job[j].rows) <= Attempts
                          /\ job[j].state = "ended" /\ job[j].exit = 0 =>
                                Len(job[j].rows) = Attempts

WorkInv == TaskTypeOK /\ JobsInv

\* The batches are counted to their end, and so are the changes of the shaping.
LEMMA NextTaskTypeOK == ASSUME TaskTypeOK, [Next]_vars PROVE TaskTypeOK'
  <1>1. CASE UNCHANGED <<task, shape, reshapes, reported>>
    BY <1>1 DEF TaskTypeOK
  <1>2. CASE StartThroughput \/ StartNoiseFloor \/ StartCalibration
    BY <1>2, WorkloadsAssumption DEF StartThroughput, StartNoiseFloor,
       StartCalibration, Begin, TaskTypeOK, Task
  <1>3. CASE Finish
    BY <1>3, WorkloadsAssumption DEF Finish, NoTask, TaskTypeOK, Task
  <1>4. CASE NextBatch /\ ~Finish
    <2>1. /\ task' = [task EXCEPT !.batch = @ + 1] /\ task.batch # Batches
          /\ UNCHANGED <<shape, reshapes, reported>>
      BY <1>4 DEF NextBatch
    <2>2. task.batch \in 0..Batches /\ Batches \in Nat
      BY WorkloadsAssumption DEF TaskTypeOK, Task
    <2>3. task.batch + 1 \in 0..Batches
      BY <2>1, <2>2
    <2>4. task' \in Task
      BY <2>1, <2>3 DEF TaskTypeOK, Task
    <2> QED  BY <2>1, <2>4 DEF TaskTypeOK
  <1>5. CASE Reshape
    BY <1>5, WorkloadsAssumption DEF Reshape, TaskTypeOK
  <1>6. (LabNext /\ UNCHANGED workVars) \/ Rest \/ UNCHANGED vars
          => UNCHANGED <<task, shape, reshapes, reported>>
    BY DEF Rest, vars, workVars
  <1>7. TaskStep => Finish \/ NextBatch
    BY DEF TaskStep, ReportThroughput, NoiseFloorFails, ReportCalibration
  <1>8. ASSUME NEW j \in Jobs, JobStep(j)
        PROVE  UNCHANGED <<task, shape, reshapes, reported>>
    BY <1>8 DEF JobStep, CannotEnter, Enter, Attempt, Leave, Killed, Exit
  <1> QED
    BY <1>1, <1>2, <1>3, <1>4, <1>5, <1>6, <1>7, <1>8 DEF Next, WorkStep

\* A process that is not there has printed nothing.
LEMMA OffIsJob == Off \in Job /\ [Off EXCEPT !.state = "called"] \in Job
                  /\ Len(Off.rows) = 0
  <1>1. <<>> \in Seq(Row)
    OBVIOUS
  <1> QED  BY <1>1 DEF Off, Job

\* New processes have printed nothing.
LEMMA CalledJobs ==
    ASSUME NEW js, job' = Called(js)
    PROVE  JobsInv'
  <1>1. \A j \in Jobs : /\ job'[j] \in Job /\ Len(job'[j].rows) = 0
                        /\ job'[j].state # "ended"
    BY OffIsJob DEF Called, Off
  <1>2. job' \in [Jobs -> Job]
    BY <1>1 DEF Called
  <1> QED  BY <1>1, <1>2, WorkloadsAssumption DEF JobsInv

\* A worker may end well with its last row only.
LEMMA ExitJob ==
    ASSUME JobsInv, NEW j \in Jobs, NEW status \in {0, 1, 15}, Exit(j, status),
           task.kind = "throughput" /\ status = 0 => Len(job[j].rows) = Attempts
    PROVE  JobsInv'
  <1>1. job[j] \in Job /\ job'[j] = [job[j] EXCEPT !.state = "ended", !.exit = status]
    BY DEF JobsInv, Exit
  <1>2. job'[j] \in Job /\ job'[j].rows = job[j].rows /\ job'[j].exit = status
    BY <1>1 DEF Job
  <1>3. \A i \in Jobs \ {j} : job'[i] = job[i]
    BY DEF JobsInv, Exit
  <1>4. job' \in [Jobs -> Job]
    BY <1>2, <1>3 DEF JobsInv, Exit
  <1>5. task' = task
    BY DEF Exit
  <1> HIDE DEF Job, Exit
  <1> QED  BY <1>2, <1>3, <1>4, <1>5 DEF JobsInv

\* What a process does, and what becomes of it.
LEMMA JobStepJobsInv == ASSUME WorkInv, NEW j \in Jobs, JobStep(j) PROVE JobsInv'
  <1>0. JobsInv
    BY DEF WorkInv
  <1>1. CASE CannotEnter(j)
    BY <1>0, <1>1, ExitJob DEF CannotEnter
  <1>2. CASE Killed(j)
    BY <1>0, <1>2, ExitJob DEF Killed
  <1>3. CASE Leave(j)
    <2> DEFINE status == IF task.kind = "ping" /\ Succeeded(job[j].rows) = {}
                           THEN 1 ELSE 0
    <2>1. Exit(j, status) /\ Len(job[j].rows) = Quota
      BY <1>3 DEF Leave
    <2>2. task.kind = "throughput" => Quota = Attempts
      BY DEF Quota
    <2>3. status \in {0, 1, 15}
      OBVIOUS
    <2> HIDE DEF status
    <2> QED  BY <1>0, <2>1, <2>2, <2>3, ExitJob
  <1>4. CASE Enter(j)
    <2>1. job[j] \in Job /\ job'[j] = [job[j] EXCEPT !.state = "running"]
      BY <1>0, <1>4 DEF JobsInv, Enter
    <2>2. /\ job'[j] \in Job /\ job'[j].rows = job[j].rows
          /\ job'[j].state = "running"
      BY <2>1 DEF Job
    <2>3. \A i \in Jobs \ {j} : job'[i] = job[i]
      BY <1>0, <1>4 DEF JobsInv, Enter
    <2>4. job' \in [Jobs -> Job]
      BY <1>0, <1>4, <2>2, <2>3 DEF JobsInv, Enter
    <2>5. task' = task
      BY <1>4 DEF Enter
    <2> HIDE DEF Job, Enter
    <2> QED  BY <1>0, <2>2, <2>3, <2>4, <2>5 DEF JobsInv
  <1>5. CASE Attempt(j)
    <2>1. PICK ok \in BOOLEAN : job' = [job EXCEPT ![j].rows =
                                          Append(@, [ok |-> ok, shape |-> shape])]
      BY <1>5 DEF Attempt
    <2>2. job[j] \in Job /\ job[j].rows \in Seq(Row) /\ job[j].state = "running"
      BY <1>0, <1>5 DEF JobsInv, Job, Attempt, Running
    <2>3. [ok |-> ok, shape |-> shape] \in Row
      BY DEF WorkInv, TaskTypeOK, Row
    <2>4. /\ job'[j] = [job[j] EXCEPT !.rows =
                          Append(job[j].rows, [ok |-> ok, shape |-> shape])]
          /\ \A i \in Jobs \ {j} : job'[i] = job[i]
      BY <1>0, <2>1 DEF JobsInv
    <2>5. /\ Append(job[j].rows, [ok |-> ok, shape |-> shape]) \in Seq(Row)
          /\ Len(Append(job[j].rows, [ok |-> ok, shape |-> shape]))
               = Len(job[j].rows) + 1
          /\ Len(job[j].rows) \in Nat
      BY <2>2, <2>3
    <2>6. /\ job'[j] \in Job /\ job'[j].state = "running"
          /\ Len(job'[j].rows) = Len(job[j].rows) + 1
      BY <2>2, <2>4, <2>5 DEF Job
    <2>7. job' \in [Jobs -> Job]
      BY <1>0, <2>1, <2>4, <2>6 DEF JobsInv
    <2>8. task' = task /\ Len(job[j].rows) < Quota
      BY <1>5 DEF Attempt
    <2>9. task.kind = "throughput" => Len(job[j].rows) < Attempts
      BY <2>8 DEF Quota
    <2>10. task.kind = "throughput" => Len(job[j].rows) + 1 <= Attempts
      BY <2>5, <2>9, WorkloadsAssumption
    <2> HIDE DEF Job
    <2> QED  BY <1>0, <2>4, <2>6, <2>7, <2>8, <2>10 DEF JobsInv
  <1> QED  BY <1>1, <1>2, <1>3, <1>4, <1>5 DEF JobStep

\* Every step of the composition, for the processes.
LEMMA NextJobsInv == ASSUME WorkInv, [Next]_vars PROVE JobsInv'
  <1>1. CASE \E j \in Jobs : JobStep(j)
    BY <1>1, JobStepJobsInv
  <1>2. CASE UNCHANGED <<task, job>>
    BY <1>2 DEF WorkInv, JobsInv
  <1>3. CASE StartThroughput \/ StartNoiseFloor \/ StartCalibration \/ Finish
    <2>1. \E js : job' = Called(js)
      BY <1>3 DEF StartThroughput, StartNoiseFloor, StartCalibration, Begin, Finish
    <2> QED  BY <2>1, CalledJobs
  <1>4. CASE NextBatch /\ ~Finish
    BY <1>4, CalledJobs DEF NextBatch
  <1>5. (LabNext /\ UNCHANGED workVars) \/ Reshape \/ Rest \/ UNCHANGED vars
          => UNCHANGED <<task, job>>
    BY DEF Reshape, Rest, vars, workVars
  <1>6. TaskStep => Finish \/ NextBatch
    BY DEF TaskStep, ReportThroughput, NoiseFloorFails, ReportCalibration
  <1> QED
    BY <1>1, <1>2, <1>3, <1>4, <1>5, <1>6 DEF Next, WorkStep

\* What the measuring scripts and their processes hold, in every state.
THEOREM WorkInvariant == Spec => []WorkInv
  <1>1. Init => WorkInv
    <2> SUFFICES ASSUME Init PROVE WorkInv
      OBVIOUS
    <2>1. /\ job = Called({}) /\ task.kind = "none" /\ task \in Task
          /\ shape \in DOMAIN RttOf /\ reshapes = 0 /\ reported = FALSE
      BY WorkloadsAssumption DEF Init, NoTask, Task
    <2>2. \A j \in Jobs : job[j] \in Job
      BY <2>1, OffIsJob DEF Called
    <2>3. 0 \in 0..MaxReshapes
      BY WorkloadsAssumption
    <2> QED  BY <2>1, <2>2, <2>3 DEF WorkInv, TaskTypeOK, JobsInv, Called
  <1>2. WorkInv /\ [Next]_vars => WorkInv'
    BY NextTaskTypeOK, NextJobsInv DEF WorkInv
  <1> QED  BY <1>1, <1>2, PTL DEF Spec

\* Every variable of the composition has its type.
THEOREM LabTyped == Spec => []TypeOK
  <1>1. LabInv /\ WorkInv => TypeOK
    <2> SUFFICES ASSUME LabInv, WorkInv PROVE TypeOK
      OBVIOUS
    <2>1. /\ task.kind \in {"none", "throughput", "noise", "ping"}
          /\ task.batch \in 0..Batches /\ task.expected \in Expectations \cup {None}
      BY DEF WorkInv, TaskTypeOK, Task
    <2> QED  BY <2>1 DEF LabInv, WorkInv, TaskTypeOK, JobsInv, Job, TypeOK
  <1> QED  BY <1>1, LabInvariant, WorkInvariant, PTL

\* A throughput report counts no row twice and none that was not asked for, and
\* without worker errors it has counted every handshake.
THEOREM ThroughputIsAccounted == Spec => []ThroughputAccounted
  <1>1. ASSUME JobsInv, WorkersReturned
        PROVE  /\ ThroughputReport.successes <= ThroughputReport.observed
               /\ ThroughputReport.observed <= ThroughputReport.requested
               /\ ThroughputReport.errors = {} =>
                     ThroughputReport.observed = ThroughputReport.requested
    <2> DEFINE Asked == Jobs \X (1..Attempts)
               Good == {r \in Rows : job[r[1]].rows[r[2]].ok}
    <2>1. Attempts \in Nat
      BY WorkloadsAssumption
    <2>2. IsFiniteSet(1..Attempts) /\ Cardinality(1..Attempts) = Attempts
      BY <2>1, FS_Interval
    <2>3. IsFiniteSet(Asked) /\ Cardinality(Asked) = Cardinality(Jobs) * Attempts
      BY <2>2, FS_Product, WorkloadsAssumption
    <2>4. Rows \subseteq Asked /\ Good \subseteq Rows
      BY DEF Rows
    <2>5. IsFiniteSet(Rows) /\ Cardinality(Rows) <= Cardinality(Asked)
      BY <2>3, <2>4, FS_Subset
    <2>6. Cardinality(Good) <= Cardinality(Rows)
      BY <2>4, <2>5, FS_Subset
    <2>7. ASSUME FailedWorkers = {} PROVE Rows = Asked
      <3>1. \A j \in Jobs : job[j].state = "ended" /\ job[j].exit = 0
        BY <1>1, <2>7 DEF FailedWorkers, WorkersReturned
      <3>2. \A j \in Jobs : /\ Len(job[j].rows) = Attempts
                            /\ job[j].rows \in Seq(Row)
        BY <1>1, <3>1 DEF JobsInv, Job, WorkersReturned
      <3>3. \A j \in Jobs : DOMAIN job[j].rows = 1..Attempts
        BY <3>2
      <3> QED  BY <3>3 DEF Rows
    <2> QED  BY <2>3, <2>5, <2>6, <2>7 DEF ThroughputReport
  <1>2. JobsInv => ThroughputAccounted
    BY <1>1 DEF ThroughputAccounted
  <1> QED  BY <1>2, WorkInvariant, PTL DEF WorkInv

\* An ok calibration is of a ping that came to its end, and of replies where the
\* expected loss leaves room for any; the exit status has no part in it.
THEOREM CalibrationMeasures == Spec => []CalibrationIsReal
  <1>1. ASSUME WorkInv, PingReturned, Calibrated(task.expected)
        PROVE  Len(job[1].rows) = Probes /\ job[1].exit # 15
    BY <1>1 DEF Calibrated, Parsed, Quota, PingReturned
  <1>2. ASSUME WorkInv, PingReturned, Calibrated(task.expected),
               task.expected.loss # None,
               task.expected.loss + LossTolerance < 100
        PROVE  Succeeded(job[1].rows) # {}
    <2>1. task.expected.loss \in 0..100 /\ LossTolerance \in Nat
      BY <1>2, WorkloadsAssumption DEF PingReturned, WorkInv, TaskTypeOK
    <2>2. WithIn(LossPercent, task.expected.loss, LossTolerance)
      BY <1>2 DEF Calibrated, Checks
    <2>3. SUFFICES ASSUME Succeeded(job[1].rows) = {} PROVE FALSE
      OBVIOUS
    <2>4. Percent(0) = 0
      BY WorkloadsAssumption DEF Percent
    <2>5. Cardinality(Succeeded(job[1].rows)) = 0
      BY <2>3, FS_EmptySet
    <2>6. LossPercent = 100
      BY <2>4, <2>5 DEF LossPercent
    <2> QED  BY <1>2, <2>1, <2>2, <2>6 DEF WithIn
  <1>3. WorkInv => CalibrationIsReal
    BY <1>1, <1>2 DEF CalibrationIsReal
  <1> QED  BY <1>3, WorkInvariant, PTL
-----------------------------------------------------------------------------
(* Why two interleaved arms get their share of each shaping of the link:   *)
(* from one run of equal rows to the next, the arms take turns.            *)

\* A set whose elements go to different elements of T is no larger than T.
LEMMA NoLarger ==
    ASSUME NEW S, NEW T, IsFiniteSet(T), NEW f \in [S -> T],
           \A x, y \in S : f[x] = f[y] => x = y
    PROVE  IsFiniteSet(S) /\ Cardinality(S) <= Cardinality(T)
BY FS_Injection DEF Injection, IsInjective

\* A set is as large as its parts together.
LEMMA Parts ==
    ASSUME NEW S, NEW T \in SUBSET S, IsFiniteSet(T), IsFiniteSet(S \ T)
    PROVE  Cardinality(S) = Cardinality(T) + Cardinality(S \ T)
<1>1. S = T \cup (S \ T) /\ T \cap (S \ T) = {}
  OBVIOUS
<1>2. Cardinality(T \cup (S \ T))
         = Cardinality(T) + Cardinality(S \ T) - Cardinality(T \cap (S \ T))
  BY FS_Union
<1>3. Cardinality(T \cap (S \ T)) = 0
  BY <1>1, FS_EmptySet
<1>4. Cardinality(T) \in Nat /\ Cardinality(S \ T) \in Nat
  BY FS_CardinalityType
<1>5. Cardinality(S) = Cardinality(T \cup (S \ T))
  BY <1>1
<1>. QED  BY <1>2, <1>3, <1>4, <1>5

\* Of n pairs of rows, what holds of the first and of the second ones differs in
\* number by no more than the runs of rows it holds of: a row follows one of the
\* other arm, or it begins a run.
LEMMA ArmsTakeTurns ==
    ASSUME NEW n \in Nat, NEW P \in SUBSET (1..(2 * n)),
           NEW first, NEW second, NEW runs,
           first = {i \in 1..n : 2 * i - 1 \in P},
           second = {i \in 1..n : 2 * i \in P},
           runs = {i \in P : i > 1 => i - 1 \notin P}
    PROVE  /\ Cardinality(first) - Cardinality(second)
                 \in -Cardinality(runs)..Cardinality(runs)
           /\ Cardinality(runs) \in Nat
<1>1. IsFiniteSet(1..n) /\ IsFiniteSet(1..(2 * n))
  BY FS_Interval
<1>2. IsFiniteSet(first) /\ IsFiniteSet(second) /\ IsFiniteSet(runs)
  BY <1>1, FS_Subset
<1>0. /\ Cardinality(first) \in Nat /\ Cardinality(second) \in Nat
      /\ Cardinality(runs) \in Nat
  BY <1>2, FS_CardinalityType
<1>3. Cardinality(first) <= Cardinality(second) + Cardinality(runs)
  <2>. DEFINE follows == {i \in first : i > 1 /\ 2 * (i - 1) \in P}
              f == [i \in follows |-> i - 1]
              g == [i \in first \ follows |-> 2 * i - 1]
  <2>1. f \in [follows -> second]
    OBVIOUS
  <2>2. g \in [first \ follows -> runs]
    <3>. SUFFICES ASSUME NEW i \in first \ follows PROVE 2 * i - 1 \in runs
      OBVIOUS
    <3>1. i \in 1..n /\ 2 * i - 1 \in P /\ (2 * i - 1) - 1 = 2 * (i - 1)
      OBVIOUS
    <3>2. 2 * i - 1 > 1 => 2 * (i - 1) \notin P
      BY <3>1
    <3>. QED  BY <3>1, <3>2
  <2>3. /\ \A x, y \in follows : f[x] = f[y] => x = y
        /\ \A x, y \in first \ follows : g[x] = g[y] => x = y
    OBVIOUS
  <2>4. follows \in SUBSET first
    OBVIOUS
  <2>. HIDE DEF follows, f, g
  <2>5. IsFiniteSet(follows) /\ Cardinality(follows) <= Cardinality(second)
    BY <1>2, <2>1, <2>3, NoLarger
  <2>6. /\ IsFiniteSet(first \ follows)
        /\ Cardinality(first \ follows) <= Cardinality(runs)
    BY <1>2, <2>2, <2>3, NoLarger
  <2>7. Cardinality(first) = Cardinality(follows) + Cardinality(first \ follows)
    BY <2>4, <2>5, <2>6, Parts
  <2>. QED  BY <1>0, <2>5, <2>6, <2>7, FS_CardinalityType
<1>4. Cardinality(second) <= Cardinality(first) + Cardinality(runs)
  <2>. DEFINE follows == {i \in second : 2 * i - 1 \in P}
              f == [i \in follows |-> i]
              g == [i \in second \ follows |-> 2 * i]
  <2>1. f \in [follows -> first]
    OBVIOUS
  <2>2. g \in [second \ follows -> runs]
    OBVIOUS
  <2>3. /\ \A x, y \in follows : f[x] = f[y] => x = y
        /\ \A x, y \in second \ follows : g[x] = g[y] => x = y
    OBVIOUS
  <2>4. follows \in SUBSET second
    OBVIOUS
  <2>. HIDE DEF follows, f, g
  <2>5. IsFiniteSet(follows) /\ Cardinality(follows) <= Cardinality(first)
    BY <1>2, <2>1, <2>3, NoLarger
  <2>6. /\ IsFiniteSet(second \ follows)
        /\ Cardinality(second \ follows) <= Cardinality(runs)
    BY <1>2, <2>2, <2>3, NoLarger
  <2>7. Cardinality(second) = Cardinality(follows) + Cardinality(second \ follows)
    BY <2>4, <2>5, <2>6, Parts
  <2>. QED  BY <1>0, <2>5, <2>6, <2>7, FS_CardinalityType
<1>. QED  BY <1>0, <1>3, <1>4
-----------------------------------------------------------------------------
\* A client of the noise floor prints no more rows than it was asked for.
NoiseInv ==
    task.kind = "noise" => \A j \in Jobs : Len(job[j].rows) <= 2 * PerArm

\* Only a client that has attempts left prints a row, and each new one starts
\* with none.
LEMMA StepNoiseInv ==
    ASSUME WorkInv, NoiseInv, [Next]_vars
    PROVE  NoiseInv'
<1>1. CASE \E j \in Jobs : JobStep(j)
  <2>1. PICK j \in Jobs : JobStep(j)
    BY <1>1
  <2>2. job \in [Jobs -> Job] /\ task' = task
    BY <2>1 DEF WorkInv, JobsInv, JobStep, CannotEnter, Enter, Attempt, Leave, Killed, Exit
  <2>3. CASE Attempt(j)
    <3>1. PICK ok \in BOOLEAN :
             job' = [job EXCEPT ![j].rows = Append(@, [ok |-> ok, shape |-> shape])]
      BY <2>3 DEF Attempt
    <3>2. job[j].rows \in Seq(Row)
      BY <2>2 DEF Job
    <3>3. job'[j].rows = Append(job[j].rows, [ok |-> ok, shape |-> shape])
      BY <2>2, <3>1 DEF Job
    <3>4. [ok |-> ok, shape |-> shape] \in Row
      BY DEF WorkInv, TaskTypeOK, Row
    <3>5. Len(job'[j].rows) = Len(job[j].rows) + 1 /\ Len(job[j].rows) \in Nat
      BY <3>2, <3>3, <3>4
    <3>6. task.kind = "noise" => Len(job[j].rows) < 2 * PerArm
      BY <2>3 DEF Attempt, Quota
    <3>7. \A i \in Jobs : i # j => job'[i] = job[i]
      BY <2>2, <3>1
    <3>. QED  BY <2>2, <3>5, <3>6, <3>7, WorkloadsAssumption DEF NoiseInv
  <2>4. CASE ~Attempt(j)
    <3>1. \A i \in Jobs : job'[i].rows = job[i].rows
      <4>1. job[j] \in Job
        BY <2>2
      <4>2. /\ \A v, w : [job[j] EXCEPT !.state = v, !.exit = w].rows = job[j].rows
            /\ \A v : [job[j] EXCEPT !.state = v].rows = job[j].rows
        BY <4>1 DEF Job
      <4>3. CASE \E status : Exit(j, status)
        BY <2>2, <4>2, <4>3 DEF Exit
      <4>4. CASE Enter(j)
        BY <2>2, <4>2, <4>4 DEF Enter
      <4>. QED  BY <2>1, <2>4, <4>3, <4>4 DEF JobStep, CannotEnter, Leave, Killed
    <3>. QED  BY <2>2, <3>1 DEF NoiseInv
  <2>. QED  BY <2>3, <2>4
<1>2. CASE UNCHANGED <<task, job>>
  BY <1>2 DEF NoiseInv
<1>3. CASE \E js : job' = Called(js)
  <2>1. \A j \in Jobs : Len(job'[j].rows) = 0
    BY <1>3, OffIsJob DEF Called, Off
  <2>. QED  BY <2>1, WorkloadsAssumption DEF NoiseInv
<1>4. StartThroughput \/ StartNoiseFloor \/ StartCalibration \/ TaskStep
         => \E js : job' = Called(js)
  BY DEF StartThroughput, StartNoiseFloor, StartCalibration, Begin, TaskStep,
     ReportThroughput, NextBatch, NoiseFloorFails, ReportCalibration, Finish
<1>5. (LabNext /\ UNCHANGED workVars) \/ Reshape \/ Rest \/ UNCHANGED vars
         => UNCHANGED <<task, job>>
  BY DEF Reshape, Rest, vars, workVars
<1>. QED  BY <1>1, <1>2, <1>3, <1>4, <1>5 DEF Next, WorkStep

\* A batch that succeeded has all its rows and no more.
LEMMA SucceededIsComplete ==
    ASSUME WorkInv, NoiseInv, task.kind = "noise", BatchSucceeded
    PROVE  job[1].rows \in Seq(Row) /\ Len(job[1].rows) = 2 * PerArm
<1>1. job[1].rows \in Seq(Row) /\ Len(job[1].rows) <= 2 * PerArm
  BY WorkloadsAssumption DEF WorkInv, JobsInv, Job, NoiseInv
<1>2. Len(job[1].rows) \in Nat /\ DOMAIN job[1].rows = 1..Len(job[1].rows)
  BY <1>1
<1>3. IsFiniteSet(1..Len(job[1].rows))
      /\ Cardinality(1..Len(job[1].rows)) = Len(job[1].rows)
  BY <1>2, FS_Interval
<1>4. /\ Cardinality(Succeeded(job[1].rows)) <= Len(job[1].rows)
      /\ IsFiniteSet(Succeeded(job[1].rows))
  BY <1>2, <1>3, FS_Subset DEF Succeeded
<1>5. Cardinality(Succeeded(job[1].rows)) >= 2 * PerArm
  BY DEF BatchSucceeded
<1>6. Cardinality(Succeeded(job[1].rows)) \in Nat /\ PerArm \in Nat
  BY <1>4, FS_CardinalityType, WorkloadsAssumption
<1>. QED  BY <1>1, <1>2, <1>4, <1>5, <1>6

\* The two arms of a batch hold equally many attempts of each shaping, but for
\* one at each change: for every size of the arms, however often the link is
\* reshaped and wherever in the batch.
THEOREM ArmsAreBalanced == Spec => []ArmsBalanced
<1>1. ASSUME WorkInv, NoiseInv, task.kind = "noise", BatchSucceeded, NEW s
      PROVE  LET rows == job[1].rows
                 arms == Split(rows)
                 In(arm) == Cardinality({i \in DOMAIN arm : arm[i].shape = s})
                 runs == {i \in DOMAIN rows : /\ rows[i].shape = s
                                              /\ i > 1 => rows[i - 1].shape # s}
             IN  /\ Len(arms.a) = PerArm /\ Len(arms.b) = PerArm
                 /\ In(arms.a) - In(arms.b)
                       \in -Cardinality(runs)..Cardinality(runs)
  <2>. DEFINE rows == job[1].rows
              P == {i \in 1..(2 * PerArm) : rows[i].shape = s}
              first == {i \in 1..PerArm : rows[2 * i - 1].shape = s}
              second == {i \in 1..PerArm : rows[2 * i].shape = s}
              runs == {i \in DOMAIN rows : /\ rows[i].shape = s
                                           /\ i > 1 => rows[i - 1].shape # s}
  <2>1. DOMAIN rows = 1..(2 * PerArm) /\ PerArm \in Nat
    BY <1>1, SucceededIsComplete, WorkloadsAssumption
  <2>2. first = {i \in 1..PerArm : 2 * i - 1 \in P}
    BY <2>1
  <2>3. second = {i \in 1..PerArm : 2 * i \in P}
    BY <2>1
  <2>4. runs = {i \in P : i > 1 => i - 1 \notin P}
    BY <2>1
  <2>5. P \in SUBSET (1..(2 * PerArm))
    OBVIOUS
  <2>6. Cardinality(first) - Cardinality(second)
           \in -Cardinality(runs)..Cardinality(runs)
    <3>. HIDE DEF P, first, second, runs
    <3>. QED  BY <2>1, <2>2, <2>3, <2>4, <2>5, ArmsTakeTurns
  <2>7. /\ Split(rows).a = [i \in 1..PerArm |-> rows[2 * i - 1]]
        /\ Split(rows).b = [i \in 1..PerArm |-> rows[2 * i]]
    BY DEF Split
  <2>8. Len(Split(rows).a) = PerArm /\ Len(Split(rows).b) = PerArm
    BY <2>1, <2>7
  <2>9. /\ {i \in DOMAIN Split(rows).a : Split(rows).a[i].shape = s} = first
        /\ {i \in DOMAIN Split(rows).b : Split(rows).b[i].shape = s} = second
    BY <2>7
  <2>. QED  BY <2>6, <2>8, <2>9
<1>2. WorkInv /\ NoiseInv => ArmsBalanced
  BY <1>1 DEF ArmsBalanced
<1>3. Init => NoiseInv
  BY DEF Init, NoTask, NoiseInv
<1>4. WorkInv /\ NoiseInv /\ [Next]_vars => NoiseInv'
  BY StepNoiseInv
<1>. QED  BY <1>2, <1>3, <1>4, WorkInvariant, PTL DEF Spec
=============================================================================
