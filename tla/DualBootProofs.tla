--------------------------- MODULE DualBootProofs ---------------------------
(* Proofs about DualBoot, for any number of volume pairs and of failures.   *)
(*                                                                          *)
(* HomeAgain is not inductive: it depends on how far set_active_system has  *)
(* come (Settled, Halfway), on what the mode is when it has (ModeKnown),    *)
(* and on no volume being mounted from a node that was replaced (Mounted).  *)
EXTENDS DualBoot, TLAPS

\* The pairs set_active_system has done lead where the mode says.
Settled ==
    \A p \in 1 .. Pairs, s \in Systems :
        p \notin unsure /\ (pc # "switch" \/ p < pair) => node[<<p, s>>] = Leads(mode, p, s)

\* So does the first node of the pair it is at, if it is at the second.
Halfway == pc = "switch" /\ half = 1 => node[<<pair, 0>>] = Leads(mode, pair, 0)

\* The mode is home in the menu, and what the user chose at an installation.
ModeKnown ==
    /\ pc = "menu" => mode = "both"
    /\ pc = "switch" => mode \in {"both", chosen} \ {"none"}
    /\ pc \in {"confirm", "install"} => mode = IF chosen = "none" THEN "both" ELSE chosen

\* What is mounted by a name is what its node leads to.
Mounted == \A v \in Names : mounts[v] \in {node[v], Nothing}

IInv == TypeOK /\ Settled /\ Halfway /\ ModeKnown /\ Mounted

USE DualBootAssumption DEF Systems, Names, Nothing

LEMMA LeadsToPartition ==
    ASSUME NEW num \in Modes, NEW p \in 1 .. Pairs, NEW s \in Systems
    PROVE  Leads(num, p, s) \in Names
BY DEF Leads, Modes

\* A format goes to a volume of the pair its item names.
LEMMA FormatsInPair ==
    ASSUME NEW v \in Items
    PROVE  Formatted(v) \in Names /\ Formatted(v)[1] = v[1] /\ v[1] \in 1 .. Pairs
BY DEF Formatted, Items

\* A node that can be replaced is one of the volumes', and not its partner.
LEMMA ReplaceStep == IInv /\ ReplaceNode => IInv'
<1> SUFFICES ASSUME IInv, ReplaceNode PROVE IInv'
  OBVIOUS
<1> DEFINE v == <<pair, half>>
           target == Leads(mode, pair, half)
<1>1. TypeOK /\ v \in Names /\ target \in Names
  BY LeadsToPartition DEF IInv, TypeOK
<1>2. /\ node' = [node EXCEPT ![v] = target]
      /\ mounts' = [mounts EXCEPT ![v] = Nothing]
  BY DEF ReplaceNode, Unmount
<1>3. \A w \in Names : w # v => node'[w] = node[w] /\ mounts'[w] = mounts[w]
  BY <1>1, <1>2 DEF TypeOK
<1>4. node'[v] = target /\ mounts'[v] = Nothing
  BY <1>1, <1>2 DEF TypeOK
<1>5. UNCHANGED <<chosen, astray, mishaps>> /\ pc = "switch"
  BY DEF ReplaceNode
<1>6. Mounted'
  BY <1>3, <1>4 DEF IInv, Mounted
<1>7. CASE half = 0
  <2>1. half' = 1 /\ UNCHANGED <<pc, mode, pair, unsure>>
    BY <1>7 DEF ReplaceNode
  <2>2. TypeOK'
    BY <1>1, <1>2, <1>5, <2>1 DEF TypeOK
  <2>3. Settled'
    <3> SUFFICES ASSUME NEW p \in 1 .. Pairs, NEW s \in Systems, p \notin unsure, p < pair
                 PROVE  node'[<<p, s>>] = Leads(mode, p, s)
      BY <1>5, <2>1 DEF Settled, Leads
    <3>1. <<p, s>> \in Names /\ <<p, s>> # v
      BY <1>1 DEF TypeOK
    <3> QED
      BY <1>3, <1>5, <3>1 DEF IInv, Settled
  <2>4. Halfway' /\ ModeKnown'
    BY <1>4, <1>5, <1>7, <2>1 DEF IInv, Halfway, ModeKnown, Leads
  <2> QED
    BY <1>6, <2>2, <2>3, <2>4 DEF IInv
<1>8. CASE half = 1
  <2>1. NextPair /\ unsure' = unsure \ {pair}
    BY <1>8 DEF ReplaceNode
  <2>2. node'[<<pair, 0>>] = Leads(mode, pair, 0)
    BY <1>1, <1>3, <1>5, <1>8 DEF IInv, Halfway, TypeOK
  <2>3. \A p \in 1 .. pair, s \in Systems :
            p \notin unsure' => node'[<<p, s>>] = Leads(mode, p, s)
    <3> SUFFICES ASSUME NEW p \in 1 .. pair, NEW s \in Systems, p \notin unsure'
                 PROVE  node'[<<p, s>>] = Leads(mode, p, s)
      OBVIOUS
    <3>1. p \in 1 .. Pairs
      BY <1>1 DEF TypeOK
    <3>2. CASE p = pair
      BY <1>4, <1>8, <2>2, <3>2
    <3>3. CASE p < pair
      <4>1. p \notin unsure /\ <<p, s>> \in Names /\ <<p, s>> # v
        BY <2>1, <3>1, <3>3, <1>1 DEF TypeOK
      <4> QED
        BY <1>3, <1>5, <3>1, <3>3, <4>1 DEF IInv, Settled
    <3>4. p = pair \/ p < pair
      BY <1>1 DEF TypeOK
    <3> QED
      BY <3>2, <3>3, <3>4
  <2>4. CASE pair = Pairs
    <3>1. pc' = (IF mode = "both" THEN "menu" ELSE "confirm") /\ UNCHANGED <<mode, pair, half>>
      BY <2>1, <2>4 DEF NextPair, SwitchDone
    <3>2. TypeOK'
      BY <1>1, <1>2, <1>5, <2>1, <3>1 DEF TypeOK
    <3>3. Settled'
      BY <2>3, <2>4, <3>1 DEF Settled, Leads
    <3>4. Halfway' /\ ModeKnown'
      BY <1>5, <3>1 DEF IInv, Halfway, ModeKnown
    <3> QED
      BY <1>6, <3>2, <3>3, <3>4 DEF IInv
  <2>5. CASE pair # Pairs
    <3>1. pair' = pair + 1 /\ half' = 0 /\ UNCHANGED <<pc, mode>>
      BY <2>1, <2>5 DEF NextPair
    <3>2. TypeOK'
      BY <1>1, <1>2, <1>5, <2>1, <2>5, <3>1 DEF TypeOK
    <3>3. Settled'
      <4> SUFFICES ASSUME NEW p \in 1 .. Pairs, NEW s \in Systems, p \notin unsure', p < pair'
                   PROVE  node'[<<p, s>>] = Leads(mode, p, s)
        BY <1>5, <3>1 DEF Settled, Leads
      <4>1. p \in 1 .. pair
        BY <1>1, <3>1 DEF TypeOK
      <4> QED
        BY <2>3, <4>1
    <3>4. Halfway' /\ ModeKnown'
      BY <1>5, <3>1 DEF IInv, Halfway, ModeKnown
    <3> QED
      BY <1>6, <3>2, <3>3, <3>4 DEF IInv
  <2> QED
    BY <2>4, <2>5
<1> QED
  BY <1>1, <1>7, <1>8 DEF TypeOK

\* One that fails leaves its pair unsure.
LEMMA FailStep == IInv /\ ReplaceFails => IInv'
<1> SUFFICES ASSUME IInv, ReplaceFails PROVE IInv'
  OBVIOUS
<1> DEFINE v == <<pair, half>>
<1>1. TypeOK /\ v \in Names
  BY DEF IInv, TypeOK
<1>2. /\ node' \in [Names -> Names \cup {Nothing}]
      /\ mounts' \in [Names -> Names \cup {Nothing}]
      /\ \A w \in Names : w # v => node'[w] = node[w]
      /\ Mounted'
  BY <1>1 DEF ReplaceFails, Unmount, nodes, IInv, Mounted, TypeOK
<1>3. /\ UNCHANGED <<chosen, astray>> /\ pc = "switch" /\ NextPair
      /\ unsure' = unsure \cup {pair} /\ mishaps' \in 0 .. MaxMishaps
  BY <1>1 DEF ReplaceFails, Mishap, TypeOK
<1>4. \A p \in 1 .. pair, s \in Systems :
          p \notin unsure' => node'[<<p, s>>] = Leads(mode, p, s)
  <2> SUFFICES ASSUME NEW p \in 1 .. pair, NEW s \in Systems, p \notin unsure'
               PROVE  node'[<<p, s>>] = Leads(mode, p, s)
    OBVIOUS
  <2>1. p \in 1 .. Pairs /\ p < pair /\ p \notin unsure
    BY <1>1, <1>3 DEF TypeOK
  <2>2. <<p, s>> \in Names /\ <<p, s>> # v
    BY <1>1, <2>1 DEF TypeOK
  <2> QED
    BY <1>2, <1>3, <2>1, <2>2 DEF IInv, Settled
<1>5. CASE pair = Pairs
  <2>1. pc' = (IF mode = "both" THEN "menu" ELSE "confirm") /\ UNCHANGED <<mode, pair, half>>
    BY <1>3, <1>5 DEF NextPair, SwitchDone
  <2>2. TypeOK'
    BY <1>1, <1>2, <1>3, <2>1 DEF TypeOK
  <2>3. Settled'
    BY <1>4, <1>5, <2>1 DEF Settled, Leads
  <2>4. Halfway' /\ ModeKnown'
    BY <1>3, <2>1 DEF IInv, Halfway, ModeKnown
  <2> QED
    BY <1>2, <2>2, <2>3, <2>4 DEF IInv
<1>6. CASE pair # Pairs
  <2>1. pair' = pair + 1 /\ half' = 0 /\ UNCHANGED <<pc, mode>>
    BY <1>3, <1>6 DEF NextPair
  <2>2. TypeOK'
    BY <1>1, <1>2, <1>3, <1>6, <2>1 DEF TypeOK
  <2>3. Settled'
    <3> SUFFICES ASSUME NEW p \in 1 .. Pairs, NEW s \in Systems, p \notin unsure', p < pair'
                 PROVE  node'[<<p, s>>] = Leads(mode, p, s)
      BY <1>3, <2>1 DEF Settled, Leads
    <3>1. p \in 1 .. pair
      BY <1>1, <2>1 DEF TypeOK
    <3> QED
      BY <1>4, <3>1
  <2>4. Halfway' /\ ModeKnown'
    BY <1>3, <2>1 DEF IInv, Halfway, ModeKnown
  <2> QED
    BY <1>2, <2>2, <2>3, <2>4 DEF IInv
<1> QED
  BY <1>5, <1>6

\* What the menus and a package do to the mounts and by the names.
LEMMA UseStep == IInv /\ (PackageMounts \/ PackageWrites \/ PackageUnmounts
                          \/ MenuMounts \/ MenuWrites \/ MenuFormats) => IInv'
<1> SUFFICES ASSUME IInv, PackageMounts \/ PackageWrites \/ PackageUnmounts
                          \/ MenuMounts \/ MenuWrites \/ MenuFormats
             PROVE  IInv'
  OBVIOUS
<1>1. UNCHANGED <<node, pc, mode, pair, half, chosen, unsure, mishaps>>
  BY DEF PackageMounts, PackageWrites, PackageUnmounts, MenuMounts, MenuWrites, MenuFormats,
         MountVolume, Write, FormatItem, nodes
<1>2. \E v \in Names : mounts' \in {mounts, [mounts EXCEPT ![v] = node[v]],
                                            [mounts EXCEPT ![v] = Nothing]}
  <2>1. CASE MenuFormats
    BY <2>1, FormatsInPair DEF MenuFormats, FormatItem, Unmount
  <2> QED
    BY <2>1 DEF PackageMounts, PackageWrites, PackageUnmounts, MenuMounts, MenuWrites,
           MountVolume, Write, Unmount, nodes
<1>3. astray' \subseteq 1 .. Pairs
  BY FormatsInPair DEF PackageMounts, PackageWrites, PackageUnmounts, MenuMounts, MenuWrites,
         MenuFormats, MountVolume, Write, FormatItem, IInv, TypeOK
<1>4. mounts' \in [Names -> Names \cup {Nothing}] /\ Mounted'
  BY <1>1, <1>2 DEF IInv, TypeOK, Mounted
<1>5. TypeOK'
  BY <1>1, <1>3, <1>4 DEF IInv, TypeOK
<1>6. Settled' /\ Halfway' /\ ModeKnown'
  BY <1>1 DEF IInv, Settled, Halfway, ModeKnown, Leads
<1> QED
  BY <1>4, <1>5, <1>6 DEF IInv

\* IInv is inductive.
THEOREM DualBootInductive == Spec => []IInv
<1>1. Init => IInv
  <2> SUFFICES ASSUME Init PROVE IInv
    OBVIOUS
  <2>1. TypeOK
    BY DEF Init, Home, TypeOK, Modes
  <2>2. Settled
    <3> SUFFICES ASSUME NEW p \in 1 .. Pairs, NEW s \in Systems PROVE node[<<p, s>>] = <<p, s>>
      BY DEF Init, Settled, Leads
    <3> QED
      BY DEF Init, Home
  <2>3. Halfway /\ ModeKnown /\ Mounted
    BY DEF Init, Halfway, ModeKnown, Mounted
  <2> QED
    BY <2>1, <2>2, <2>3 DEF IInv
<1>2. IInv /\ [Next]_vars => IInv'
  <2> SUFFICES ASSUME IInv, [Next]_vars PROVE IInv'
    OBVIOUS
  <2>1. CASE ReplaceNode
    BY <2>1, ReplaceStep
  <2>2. CASE ReplaceFails
    BY <2>2, FailStep
  <2>3. CASE ChooseSystem \/ Refuse \/ InstallEnds
    <3>1. UNCHANGED <<nodes, unsure, astray, mishaps>> /\ pc' = "switch" /\ pair' = 1 /\ half' = 0
      BY <2>3 DEF ChooseSystem, Refuse, InstallEnds, SwitchBack, SetActiveSystem
    <3>2. mode' \in {"both", chosen'} \ {"none"} /\ chosen' \in {"none", "system0", "system1"}
      BY <2>3 DEF ChooseSystem, Refuse, InstallEnds, SwitchBack, SetActiveSystem, IInv, TypeOK
    <3>3. TypeOK'
      BY <3>1, <3>2 DEF IInv, TypeOK, nodes, Modes
    <3>4. Settled' /\ Halfway' /\ ModeKnown' /\ Mounted'
      BY <3>1, <3>2 DEF IInv, Settled, Halfway, ModeKnown, Mounted, nodes
    <3> QED
      BY <3>3, <3>4 DEF IInv
  <2>4. CASE ChooseNothing \/ Install
    <3>1. UNCHANGED <<nodes, mode, pair, half, unsure, astray, mishaps>>
      BY <2>4 DEF ChooseNothing, Install
    <3>2. /\ pc \in {"menu", "confirm"} /\ pc' \in {"confirm", "install"}
          /\ chosen' \in {"none", chosen} /\ (pc = "menu" => chosen' = "none")
          /\ (pc = "confirm" => chosen' = chosen)
      BY <2>4 DEF ChooseNothing, Install
    <3>3. TypeOK'
      BY <3>1, <3>2 DEF IInv, TypeOK, nodes
    <3>4. Settled'
      BY <3>1, <3>2 DEF IInv, Settled, nodes, Leads
    <3>5. Halfway' /\ ModeKnown' /\ Mounted'
      BY <3>1, <3>2 DEF IInv, Halfway, ModeKnown, Mounted, nodes
    <3> QED
      BY <3>3, <3>4, <3>5 DEF IInv
  <2>5. CASE PackageMounts \/ PackageWrites \/ PackageUnmounts
             \/ MenuMounts \/ MenuWrites \/ MenuFormats
    BY <2>5, UseStep
  <2>6. CASE PowerLoss
    <3>1. TypeOK'
      BY <2>6 DEF PowerLoss, Home, Mishap, IInv, TypeOK, Modes
    <3>2. Settled'
      <4> SUFFICES ASSUME NEW p \in 1 .. Pairs, NEW s \in Systems PROVE node'[<<p, s>>] = <<p, s>>
        BY <2>6 DEF PowerLoss, Settled, Leads
      <4> QED
        BY <2>6 DEF PowerLoss, Home
    <3>3. Halfway' /\ ModeKnown' /\ Mounted'
      BY <2>6 DEF PowerLoss, Halfway, ModeKnown, Mounted
    <3> QED
      BY <3>1, <3>2, <3>3 DEF IInv
  <2>7. CASE UNCHANGED vars
    BY <2>7 DEF vars, nodes, IInv, TypeOK, Settled, Halfway, ModeKnown, Mounted, Leads
  <2> QED
    BY <2>1, <2>2, <2>3, <2>4, <2>5, <2>6, <2>7 DEF Next, Menu, Package
<1> QED
  BY <1>1, <1>2, PTL DEF Spec

\* Every variable keeps its type.
THEOREM DualBootTypes == Spec => []TypeOK
<1>1. IInv => TypeOK
  BY DEF IInv
<1> QED
  BY <1>1, DualBootInductive, PTL

\* After an installation every name leads home, unless its pair failed.
THEOREM HomeIsReached == Spec => []HomeAgain
<1>1. IInv => HomeAgain
  <2> SUFFICES ASSUME IInv, pc = "menu", NEW v \in Names, v[1] \notin unsure
               PROVE  node[v] = v /\ mounts[v] \in {v, Nothing}
    BY DEF HomeAgain
  <2>1. PICK p \in 1 .. Pairs, s \in Systems : v = <<p, s>>
    OBVIOUS
  <2>2. node[v] = v
    BY <2>1 DEF IInv, Settled, ModeKnown, Leads
  <2> QED
    BY <2>2 DEF IInv, Mounted
<1> QED
  BY <1>1, DualBootInductive, PTL

\* Nothing is written to the other system or to another volume than the one
\* named, unless by a pair that failed or by the format menu's /boot1 item.
THEOREM ChosenSystemOnly == Spec => OnlyChosenSystem
<1>1. IInv /\ [Next]_vars => [FormatItem(<<Boot, 1>>) \/ astray' \subseteq astray \cup unsure]_vars
  <2> SUFFICES ASSUME IInv, Next, ~FormatItem(<<Boot, 1>>)
               PROVE  astray' \subseteq astray \cup unsure
    OBVIOUS
  <2>1. CASE PackageWrites
    <3>1. PICK v \in Names : Write(v, Meant(v)) /\ pc = "install"
      BY <2>1 DEF PackageWrites
    <3>2. v[1] \notin unsure => node[v] = Leads(mode, v[1], v[2])
      <4>1. PICK p \in 1 .. Pairs, s \in Systems : v = <<p, s>>
        OBVIOUS
      <4> QED
        BY <3>1, <4>1 DEF IInv, Settled
    <3>3. Meant(v) = Leads(mode, v[1], v[2])
      BY <3>1 DEF IInv, ModeKnown, Meant, Leads
    <3>4. Reached(v) = node[v]
      BY <3>1 DEF Write, Reached, IInv, Mounted
    <3> QED
      BY <3>1, <3>2, <3>3, <3>4 DEF Write
  <2>2. CASE MenuWrites \/ MenuFormats
    <3>1. PICK v \in Names :
            /\ pc = "menu"
            /\ \/ Write(v, v)
               \/ astray' = IF node[v] = v THEN astray ELSE astray \cup {v[1]}
      <4>1. CASE MenuWrites
        BY <4>1 DEF MenuWrites
      <4>2. CASE MenuFormats
        <5>1. PICK v \in Items : FormatItem(v)
          BY <4>2 DEF MenuFormats
        <5>2. v # <<Boot, 1>> /\ v \in Names
          BY <5>1, FormatsInPair DEF Items
        <5> QED
          BY <5>1, <5>2 DEF FormatItem, Formatted
      <4> QED
        BY <2>2, <4>1, <4>2
    <3>2. v[1] \notin unsure => node[v] = v
      <4>1. PICK p \in 1 .. Pairs, s \in Systems : v = <<p, s>>
        OBVIOUS
      <4> QED
        BY <3>1, <4>1 DEF IInv, Settled, ModeKnown, Leads
    <3>3. Reached(v) # Nothing => Reached(v) = node[v]
      BY DEF Reached, IInv, Mounted
    <3> QED
      BY <3>1, <3>2, <3>3 DEF Write
  <2>3. CASE ~(PackageWrites \/ MenuWrites \/ MenuFormats)
    BY <2>3 DEF Next, Menu, Package, ReplaceNode, ReplaceFails, Refuse, Install, ChooseSystem,
       ChooseNothing, MenuMounts, PackageMounts, MountVolume, PackageUnmounts, InstallEnds, PowerLoss
  <2> QED
    BY <2>1, <2>2, <2>3
<1> QED
  BY <1>1, DualBootInductive, PTL DEF Spec, OnlyChosenSystem
=============================================================================
