---------------------------- MODULE StartupProofs ---------------------------
(***************************************************************************)
(* Theorems about the start of the shell, for every table of commands,     *)
(* every hash, every heap and every number of keys: the interrupts may     *)
(* come between any two steps of kmain.                                    *)
(***************************************************************************)
EXTENDS Startup, Lemmas, SequenceTheorems

LEMMA CommandFacts ==
  /\ Len(Commands) \in Nat \ {0} /\ DOMAIN Commands = 1 .. Len(Commands)
  /\ \A i \in DOMAIN Commands : /\ Commands[i] \in ToSet(Commands)
                                /\ Bucket[Commands[i]] \in Buckets
  /\ NoBlock \notin Blocks /\ Blocks \subseteq Nat
<1>1. Len(Commands) \in Nat /\ DOMAIN Commands = 1 .. Len(Commands)
  BY StartupAssumption, LenProperties
<1>2. PICK i \in DOMAIN Commands : Commands[i] = Alloc
  BY StartupAssumption DEF ToSet
<1>3. \A j \in DOMAIN Commands : /\ Commands[j] \in ToSet(Commands)
                                 /\ Bucket[Commands[j]] \in Buckets
  BY DEF ToSet, Buckets
<1>4. NoBlock \notin Blocks /\ Blocks \subseteq Nat
  BY StartupAssumption DEF Blocks, NoBlock
<1> QED BY <1>1, <1>2, <1>3, <1>4

LEMMA FirstFreeIsFree ==
  ASSUME free \subseteq Blocks
  PROVE  /\ FirstFree \in Blocks \cup {NoBlock}
         /\ IF FirstFree = NoBlock THEN free = {} ELSE FirstFree \in free
<1>1. CASE free = {}
  BY <1>1 DEF FirstFree
<1>2. CASE free # {}
  <2>1. Min(free) \in free
    BY <1>2, CommandFacts, LeastNatural DEF Min
  <2> QED BY <1>2, <2>1, CommandFacts DEF FirstFree
<1> QED BY <1>1, <1>2

LEMMA Initially == Init => Inductive
<1> SUFFICES ASSUME Init PROVE Inductive
  OBVIOUS
<1> USE DEF Init
<1>1. TypeOK
  <2>1. free \subseteq Blocks
    BY DEF Blocks
  <2>2. 1 \in DOMAIN Commands /\ 0 \in 0 .. MaxKeys /\ 0 \in 0 .. (TickModulus - 1)
    BY CommandFacts, StartupAssumption
  <2>3. /\ owners \in [Blocks -> Nat]
        /\ node \in [ToSet(Commands) -> [at : Blocks \cup {NoBlock}, key : Blocks \cup {NoBlock}]]
    OBVIOUS
  <2>4. \A b \in Buckets : ToSet(table[b]) = {}
    BY DEF ToSet
  <2> QED BY <2>1, <2>2, <2>3, <2>4 DEF TypeOK
<1>2. table \in [Buckets -> Seq(ToSet(Commands))]
  OBVIOUS
<1>3. BlocksSound /\ NodeSound /\ BlocksDistinct
  BY DEF BlocksSound, NodeSound, BlocksDistinct, Registering, Taking, Blocks
<1>4. TableWhole
  BY DEF TableWhole, ToSet, IsInjective
<1> QED BY <1>1, <1>2, <1>3, <1>4 DEF Inductive

-----------------------------------------------------------------------------
(* Types.                                                                  *)

LEMMA TypesPreserved ==
  ASSUME Inductive, Next
  PROVE  TypeOK'
<1> USE DEF Inductive, TypeOK, heapVars, keyVars, tableVars, picVars
<1>0. /\ Len(Commands) \in Nat /\ DOMAIN Commands = 1 .. Len(Commands)
      /\ \A i \in DOMAIN Commands : Commands[i] \in ToSet(Commands) /\ Bucket[Commands[i]] \in Buckets
      /\ Name \in ToSet(Commands)
      /\ FirstFree \in Blocks \cup {NoBlock} /\ (free # {} => FirstFree \in Blocks)
      /\ Lines \subseteq Lines \cup {Cascade}
  BY CommandFacts, FirstFreeIsFree DEF Name
<1>1. ASSUME NEW block \in Blocks, Marked(block)
      PROVE  free' \subseteq Blocks /\ owners' \in [Blocks -> Nat]
  BY <1>1 DEF Marked
<1>2. ASSUME Returns
      PROVE  handler' = None /\ pending' \subseteq Lines /\ inService' \subseteq Lines \cup {Cascade}
  BY <1>2 DEF Returns, pic_send_eoi
<1>3. ASSUME EnablesInterrupts \/ ShellInit \/ FindsBlock \/ FaultsOnNode \/ ShowsPrompt
      PROVE  TypeOK'
  BY <1>0, <1>3 DEF EnablesInterrupts, ShellInit, FindsBlock, FaultsOnNode, ShowsPrompt
<1>4. CASE TakesNode
  <2>1. node' \in [ToSet(Commands) -> [at : Blocks \cup {NoBlock}, key : Blocks \cup {NoBlock}]]
    BY <1>0, <1>4 DEF TakesNode
  <2>2. free' \subseteq Blocks /\ owners' \in [Blocks -> Nat]
    BY <1>1, <1>4 DEF TakesNode
  <2> QED BY <1>4, <2>1, <2>2 DEF TakesNode
<1>5. CASE TakesKey
  <2>1. node' \in [ToSet(Commands) -> [at : Blocks \cup {NoBlock}, key : Blocks \cup {NoBlock}]]
    BY ZenonT(60), <1>0, <1>5 DEF TakesKey
  <2>2. free' \subseteq Blocks /\ owners' \in [Blocks -> Nat]
    BY <1>1, <1>5 DEF TakesKey
  <2> QED BY <1>5, <2>1, <2>2 DEF TakesKey
<1>6. CASE LinksNode
  <2>1. ASSUME NEW b \in Buckets PROVE ToSet(table'[b]) \subseteq ToSet(Commands)
    <3>1. table[b] \in Seq(ToSet(Commands)) /\ <<Name>> \in Seq(ToSet(Commands))
      BY <1>0
    <3>2. table'[b] \in Seq(ToSet(Commands))
      BY <1>0, <1>6, <3>1, ConcatProperties DEF LinksNode
    <3> QED BY <3>2, LenProperties, ElementOfSeq DEF ToSet
  <2>2. current' \in DOMAIN Commands
    BY <1>0, <1>6 DEF LinksNode
  <2>3. /\ main' \in {"findNode", "prompt"}
        /\ UNCHANGED <<found, node, heapVars, typed, keyVars, picVars, ticks, halted>>
    BY <1>6 DEF LinksNode
  <2> QED BY <2>1, <2>2, <2>3
<1>7. CASE Press \/ TimerFires \/ OtherRaised
  <2>1. /\ pending' \subseteq Lines
        /\ UNCHANGED <<main, found, tableVars, heapVars, typed, inService, handler, ticks, halted>>
    BY <1>7 DEF Press, TimerFires, OtherRaised, Lines
  <2>2. CASE UNCHANGED keyVars
    BY <2>1, <2>2
  <2>3. CASE Press
    <3>1. keys' \in 0 .. MaxKeys
      BY <2>3, StartupAssumption DEF Press
    <3>2. raced' \subseteq Blocks
      BY <2>3 DEF Press
    <3> QED BY <2>1, <3>1, <3>2
  <2> QED BY <1>7, <2>2, <2>3 DEF TimerFires, OtherRaised
<1>8. ASSUME NEW line \in Lines, Deliver(line) PROVE TypeOK'
  BY <1>8 DEF Deliver, ThroughFirst
<1>9. ASSUME NEW line \in Spurious, DeliverSpurious(line) PROVE TypeOK'
  <2>1. {ThroughFirst(line)} \ Spurious \subseteq {Cascade}
    BY DEF ThroughFirst, Spurious, Second
  <2> QED BY <1>9, <2>1 DEF DeliverSpurious
<1>10. CASE TimerTick
  <2>1. ticks' \in 0 .. (TickModulus - 1)
    <3>1. ticks + 1 \in Nat /\ TickModulus \in Nat \ {0} /\ ticks' = (ticks + 1) % TickModulus
      BY <1>10, StartupAssumption DEF TimerTick
    <3>2. ticks' \in Nat /\ ticks' < TickModulus
      BY <3>1, DivMod
    <3> QED BY <3>1, <3>2
  <2> QED BY <1>2, <1>10, <2>1 DEF TimerTick
<1>11. CASE KeyTypes \/ EnterFaults \/ OtherLine
  BY <1>2, <1>11 DEF KeyTypes, EnterFaults, OtherLine
<1>12. CASE EnterRuns
  <2>1. free' \subseteq Blocks /\ owners' \in [Blocks -> Nat] /\ raced' \subseteq Blocks
    BY <1>0, <1>1, <1>12 DEF EnterRuns
  <2> QED BY <1>2, <1>12, <2>1 DEF EnterRuns
<1> QED BY <1>3, <1>4, <1>5, <1>6, <1>7, <1>8, <1>9, <1>10, <1>11, <1>12 DEF Next, Main, Handler

-----------------------------------------------------------------------------
(* The blocks of the heap.                                                 *)

(* Blocks are only taken; one that was free gets one owner.                *)
LEMMA MarkedEffect ==
  ASSUME TypeOK, NEW block \in Blocks, Marked(block), \A b \in free : owners[b] = 0
  PROVE  /\ free' \subseteq free /\ \A b \in free' : owners'[b] = 0
         /\ \A b \in Blocks : owners'[b] = IF b = block THEN owners[b] + 1 ELSE owners[b]
         /\ block \in free => owners'[block] = 1
<1> USE DEF TypeOK, Marked
<1>1. \A b \in Blocks : owners'[b] = IF b = block THEN owners[b] + 1 ELSE owners[b]
  OBVIOUS
<1> QED BY <1>1

LEMMA BlocksPreserved ==
  ASSUME Inductive, Next
  PROVE  BlocksSound' /\ BlocksDistinct' /\ free' \subseteq free
<1> USE DEF Inductive, heapVars, keyVars, tableVars, picVars
<1>0. /\ free \subseteq Blocks /\ found \in Blocks \cup {NoBlock} /\ NoBlock \notin Blocks
      /\ IF FirstFree = NoBlock THEN free = {} ELSE FirstFree \in free
      /\ \A b \in free : owners[b] = 0
  BY CommandFacts, FirstFreeIsFree DEF TypeOK, BlocksSound
<1>1. CASE EnablesInterrupts \/ ShellInit \/ FaultsOnNode \/ LinksNode \/ ShowsPrompt
  <2>1. UNCHANGED <<heapVars, raced, found>> /\ (Taking' => Taking)
    BY <1>1 DEF EnablesInterrupts, ShellInit, FaultsOnNode, LinksNode, ShowsPrompt, Taking
  <2> QED BY <2>1 DEF BlocksSound, BlocksDistinct
<1>2. CASE FindsBlock
  BY <1>0, <1>2 DEF FindsBlock, BlocksSound, BlocksDistinct
<1>3. CASE TakesNode \/ TakesKey
  <2>1. ~Taking' /\ Taking /\ raced' = raced
    BY <1>3 DEF TakesNode, TakesKey, Taking
  <2>2. CASE found # NoBlock
    <3>1. Marked(found) /\ found \in Blocks /\ found \in free \cup raced
      BY <1>0, <1>3, <2>1, <2>2 DEF TakesNode, TakesKey, BlocksSound
    <3>2. /\ free' \subseteq free /\ \A b \in free' : owners'[b] = 0
          /\ \A b \in Blocks : b # found => owners'[b] = owners[b]
          /\ found \in free => owners'[found] = 1
      BY <1>0, <3>1, MarkedEffect
    <3>3. BlocksDistinct'
      BY <2>1, <3>1, <3>2 DEF BlocksDistinct
    <3> QED BY <2>1, <3>2, <3>3 DEF BlocksSound
  <2>3. CASE found = NoBlock
    <3>1. UNCHANGED heapVars
      BY <1>3, <2>3 DEF TakesNode, TakesKey
    <3> QED BY <2>1, <3>1 DEF BlocksSound, BlocksDistinct
  <2> QED BY <2>2, <2>3
<1>4. CASE Press \/ TimerFires \/ OtherRaised
  <2>1. UNCHANGED <<heapVars, main, found, raced>>
    BY <1>4 DEF Press, TimerFires, OtherRaised
  <2> QED BY <2>1 DEF BlocksSound, BlocksDistinct, Taking
<1>5. ASSUME NEW line \in Lines, Deliver(line)
      PROVE  BlocksSound' /\ BlocksDistinct' /\ free' \subseteq free
  BY <1>5 DEF Deliver, BlocksSound, BlocksDistinct, Taking
<1>6. ASSUME NEW line \in Spurious, DeliverSpurious(line)
      PROVE  BlocksSound' /\ BlocksDistinct' /\ free' \subseteq free
  BY <1>6 DEF DeliverSpurious, BlocksSound, BlocksDistinct, Taking
<1>7. CASE TimerTick \/ KeyTypes \/ EnterFaults \/ OtherLine
  <2>1. UNCHANGED <<main, found, heapVars, raced>>
    BY <1>7 DEF TimerTick, KeyTypes, EnterFaults, OtherLine
  <2> QED BY <2>1 DEF BlocksSound, BlocksDistinct, Taking
<1>8. CASE EnterRuns
  <2>1. UNCHANGED <<main, found>> /\ Taking' = Taking
    BY <1>8 DEF EnterRuns, Taking
  <2>2. CASE UNCHANGED <<heapVars, raced>>
    BY <2>1, <2>2 DEF BlocksSound, BlocksDistinct
  <2>3. CASE /\ free # {} /\ Marked(FirstFree)
             /\ raced' = raced \cup {b \in {found} : Taking /\ b = FirstFree}
    <3>1. FirstFree \in free /\ FirstFree \in Blocks
      BY <1>0, <2>3
    <3>2. /\ free' \subseteq free /\ \A b \in free' : owners'[b] = 0
          /\ \A b \in Blocks : b # FirstFree => owners'[b] = owners[b]
          /\ owners'[FirstFree] = 1
      BY <1>0, <2>3, <3>1, MarkedEffect
    <3>3. BlocksDistinct'
      BY <2>3, <3>1, <3>2 DEF BlocksDistinct
    <3>5. ASSUME Taking PROVE found # NoBlock => found \in free' \cup raced'
      BY <2>3, <3>5 DEF BlocksSound, Marked
    <3>6. ASSUME Taking, found = NoBlock PROVE free' = {}
      BY <3>2, <3>6 DEF BlocksSound
    <3> QED BY <2>1, <3>2, <3>3, <3>5, <3>6 DEF BlocksSound
  <2> QED BY <1>8, <2>2, <2>3 DEF EnterRuns
<1> QED BY <1>1, <1>2, <1>3, <1>4, <1>5, <1>6, <1>7, <1>8 DEF Next, Main, Handler

-----------------------------------------------------------------------------
(* The command table.                                                      *)

Registered ==
  {Commands[i] : i \in 1 .. (current - 1)} \cup IF main \in {"prompt", "idle"} THEN {Name} ELSE {}

TableHolds(registered) ==
  /\ \A b \in Buckets : /\ ToSet(table[b]) = {name \in registered : Bucket[name] = b}
                        /\ IsInjective(table[b])
  /\ \A name \in registered :
       node[name].at # NoBlock /\ (node[name].key = NoBlock => free = {})

(* The command that is being registered is not in the table.               *)
LEMMA NameIsNew ==
  ASSUME TypeOK
  PROVE  /\ TableWhole <=> TableHolds(Registered)
         /\ Name \in ToSet(Commands) /\ current \in 1 .. Len(Commands) /\ Len(Commands) \in Nat
         /\ \A i \in 1 .. (current - 1) : Commands[i] # Name /\ Commands[i] \in ToSet(Commands)
         /\ Registered \subseteq ToSet(Commands)
<1>1. TableWhole <=> TableHolds(Registered)
  BY DEF TableWhole, TableHolds, Registered
<1>2. /\ current \in 1 .. Len(Commands) /\ Len(Commands) \in Nat /\ DOMAIN Commands = 1 .. Len(Commands)
      /\ Name \in ToSet(Commands)
  BY CommandFacts DEF TypeOK, Name
<1>3. \A i \in 1 .. (current - 1) : i \in DOMAIN Commands /\ i # current
  BY <1>2
<1>4. \A i \in 1 .. (current - 1) : Commands[i] # Name /\ Commands[i] \in ToSet(Commands)
  BY <1>2, <1>3, CommandFacts, StartupAssumption DEF IsInjective, Name
<1> QED BY <1>1, <1>2, <1>4 DEF Registered

(* The command that is linked becomes the head of its bucket.              *)
LEMMA HeadIsNew ==
  ASSUME NEW S, NEW s \in Seq(S), NEW x \in S, IsInjective(s), x \notin ToSet(s)
  PROVE  LET r == <<x>> \o s
         IN  r \in Seq(S) /\ IsInjective(r) /\ ToSet(r) = ToSet(s) \cup {x}
<1> DEFINE r == <<x>> \o s
<1>0. <<x>> \in Seq(S) /\ Len(<<x>>) = 1 /\ <<x>>[1] = x
  OBVIOUS
<1>1. /\ r \in Seq(S) /\ Len(r) = Len(s) + 1 /\ Len(s) \in Nat
      /\ \A i \in 1 .. Len(r) : r[i] = IF i <= 1 THEN x ELSE s[i - 1]
  BY <1>0, ConcatProperties, LenProperties
<1>2. DOMAIN r = 1 .. Len(r) /\ DOMAIN s = 1 .. Len(s)
  BY <1>1, LenProperties
<1> HIDE DEF r
<1>3. 1 \in 1 .. Len(r) /\ r[1] = x
  BY <1>1
<1>4. \A i \in 1 .. Len(s) : i + 1 \in 1 .. Len(r) /\ r[i + 1] = s[i]
  BY <1>1
<1>5. \A i \in 1 .. Len(r) : i # 1 => i - 1 \in 1 .. Len(s) /\ r[i] = s[i - 1]
  BY <1>1
<1>6. \A i \in 1 .. Len(s) : s[i] # x
  BY <1>2 DEF ToSet
<1>7. IsInjective(r)
  <2> SUFFICES ASSUME NEW i \in 1 .. Len(r), NEW j \in 1 .. Len(r), r[i] = r[j] PROVE i = j
    BY <1>2 DEF IsInjective
  <2>1. CASE i = 1 \/ j = 1
    BY <1>3, <1>5, <1>6, <2>1
  <2>2. CASE i # 1 /\ j # 1
    <3>1. i - 1 = j - 1
      BY <1>2, <1>5, <2>2 DEF IsInjective
    <3> QED BY <1>1, <3>1
  <2> QED BY <2>1, <2>2
<1>8. ToSet(r) = ToSet(s) \cup {x}
  <2>1. ToSet(r) = {r[i] : i \in 1 .. Len(r)} /\ ToSet(s) = {s[i] : i \in 1 .. Len(s)}
    BY <1>2 DEF ToSet
  <2>2. \A y \in ToSet(r) : y \in ToSet(s) \cup {x}
    BY <1>3, <1>5, <2>1
  <2>3. \A y \in ToSet(s) \cup {x} : y \in ToSet(r)
    BY <1>3, <1>4, <2>1
  <2> QED BY <2>2, <2>3
<1> QED BY <1>1, <1>7, <1>8 DEF r

LEMMA LinkPreserves ==
  ASSUME Inductive, LinksNode
  PROVE  table' \in [Buckets -> Seq(ToSet(Commands))] /\ NodeSound' /\ TableWhole'
<1> USE DEF Inductive
<1> DEFINE old == {Commands[i] : i \in 1 .. (current - 1)}
           b == Bucket[Name]
<1>1. /\ main = "link" /\ table' = [table EXCEPT ![b] = <<Name>> \o @] /\ node' = node /\ free' = free
      /\ \/ current < Len(Commands) /\ main' = "findNode" /\ current' = current + 1
         \/ current >= Len(Commands) /\ main' = "prompt" /\ current' = current
  BY CommandFacts DEF LinksNode, heapVars, TypeOK
<1>2. /\ Name \in ToSet(Commands) /\ current \in 1 .. Len(Commands) /\ Len(Commands) \in Nat
      /\ \A i \in 1 .. (current - 1) : Commands[i] # Name /\ Commands[i] \in ToSet(Commands)
      /\ Name = Commands[current]
  BY NameIsNew DEF Name
<1>3. Registered = old /\ TableHolds(old)
  BY <1>1, NameIsNew DEF Registered
<1>4. Name \notin old /\ b \in Buckets
  BY <1>2 DEF Buckets
<1>5. Registered' = old \cup {Name}
  <2>1. CASE main' = "findNode" /\ current' = current + 1
    <3>1. \A i : i \in 1 .. (current' - 1) <=> i \in 1 .. (current - 1) \/ i = current
      BY <1>2, <2>1
    <3> QED BY <1>2, <2>1, <3>1 DEF Registered
  <2>2. CASE main' = "prompt" /\ current' = current
    BY <2>2 DEF Registered, Name
  <2> QED BY <1>1, <2>1, <2>2
<1>6. /\ table[b] \in Seq(ToSet(Commands)) /\ IsInjective(table[b]) /\ Name \notin ToSet(table[b])
      /\ ToSet(table[b]) = {name \in old : Bucket[name] = b}
  BY <1>3, <1>4 DEF TableHolds
<1>7. /\ <<Name>> \o table[b] \in Seq(ToSet(Commands)) /\ IsInjective(<<Name>> \o table[b])
      /\ ToSet(<<Name>> \o table[b]) = ToSet(table[b]) \cup {Name}
  BY <1>2, <1>6, HeadIsNew
<1>8. /\ table' \in [Buckets -> Seq(ToSet(Commands))]
      /\ table'[b] = <<Name>> \o table[b] /\ \A c \in Buckets : c # b => table'[c] = table[c]
  BY <1>1, <1>4, <1>7
<1>9. PICK all : all = old \cup {Name}
  OBVIOUS
<1>10. TableHolds(all)'
  <2>1. ASSUME NEW c \in Buckets
        PROVE  /\ ToSet(table'[c]) = {name \in all : Bucket[name] = c}
               /\ IsInjective(table'[c])
    <3>1. CASE c = b
      BY <1>6, <1>7, <1>8, <1>9, <3>1
    <3>2. CASE c # b
      <4>1. /\ table'[c] = table[c] /\ IsInjective(table[c])
            /\ ToSet(table[c]) = {name \in old : Bucket[name] = c}
        BY <1>3, <1>8, <3>2 DEF TableHolds
      <4> QED BY <1>9, <3>2, <4>1
    <3> QED BY <3>1, <3>2
  <2>2. ASSUME NEW name \in all
        PROVE  node'[name].at # NoBlock /\ (node'[name].key = NoBlock => free' = {})
    <3>1. CASE name = Name
      BY <1>1, <3>1 DEF NodeSound, Registering
    <3>2. CASE name \in old
      BY <1>1, <1>3, <3>2 DEF TableHolds
    <3> QED BY <1>9, <3>1, <3>2
  <2> QED BY <2>1, <2>2 DEF TableHolds
<1>11. TableWhole'
  <2>1. TableHolds(Registered)'
    BY <1>5, <1>9, <1>10 DEF TableHolds
  <2> QED BY <2>1 DEF TableWhole, TableHolds, Registered
<1>12. NodeSound'
  BY <1>1, <1>2 DEF NodeSound, Registering
<1> QED BY <1>8, <1>11, <1>12

(* Every other step leaves the table whole.                                *)
LEMMA TablePreserved ==
  ASSUME Inductive, Next, ~LinksNode
  PROVE  table' \in [Buckets -> Seq(ToSet(Commands))] /\ NodeSound' /\ TableWhole'
<1> USE DEF Inductive, heapVars, keyVars, tableVars, picVars
<1>0. /\ Name \in ToSet(Commands) /\ current \in 1 .. Len(Commands) /\ Len(Commands) \in Nat
      /\ Name \notin {Commands[i] : i \in 1 .. (current - 1)}
      /\ TableHolds(Registered) /\ Registered \subseteq ToSet(Commands)
      /\ node \in [ToSet(Commands) -> [at : Blocks \cup {NoBlock}, key : Blocks \cup {NoBlock}]]
  BY NameIsNew DEF TypeOK
<1>1. free' \subseteq free
  BY BlocksPreserved
<1>2. (TableWhole <=> TableHolds(Registered))'
  BY DEF TableWhole, TableHolds, Registered
<1>3. CASE TakesNode \/ TakesKey
  <2>1. /\ main \in {"takeNode", "takeKey"} /\ main' \in {"findKey", "link"}
        /\ UNCHANGED <<current, table>>
    BY <1>3 DEF TakesNode, TakesKey
  <2>2. Name' = Name /\ Registered' = Registered /\ Name \notin Registered
    BY <1>0, <2>1 DEF Registered, Name
  <2>3. \A name \in ToSet(Commands) : name # Name => node'[name] = node[name]
    BY <1>0, <1>3 DEF TakesNode, TakesKey
  <2>4. TableHolds(Registered)'
    <3>1. \A name \in Registered : node'[name].at # NoBlock /\ (node'[name].key = NoBlock => free' = {})
      BY <1>0, <1>1, <2>2, <2>3 DEF TableHolds
    <3> QED BY <1>0, <2>1, <2>2, <3>1 DEF TableHolds
  <2>5. NodeSound'
    <3>1. CASE TakesNode
      <4>1. node'[Name].at = found /\ found # NoBlock /\ main' = "findKey"
        BY <1>0, <3>1 DEF TakesNode
      <4> QED BY <2>2, <4>1 DEF NodeSound, Registering
    <3>2. CASE TakesKey
      <4>1. /\ node'[Name].key = found /\ node'[Name].at = node[Name].at
            /\ main = "takeKey" /\ main' = "link"
        BY <1>0, <3>2 DEF TakesKey
      <4>2. found = NoBlock => free' = {}
        BY <1>1, <4>1 DEF BlocksSound, Taking
      <4> QED BY <2>2, <4>1, <4>2 DEF NodeSound, Registering
    <3> QED BY <1>3, <3>1, <3>2
  <2> QED BY <1>2, <2>1, <2>4, <2>5
<1>4. CASE UNCHANGED tableVars /\ (main' = main \/ main = "sti" \/ main = "greet" \/ FindsBlock \/ ShowsPrompt)
  <2>1. /\ Registered' = Registered /\ UNCHANGED <<current, node, table>> /\ Name' = Name
        /\ NodeSound'
    <3>1. CASE main' = main
      BY <1>1, <1>4, <3>1 DEF Registered, Name, NodeSound
    <3>2. CASE (main = "sti" /\ main' = "greet") \/ (main = "greet" /\ main' = "findNode")
      BY <1>4, <3>2 DEF Registered, Name, NodeSound, Registering
    <3>3. CASE FindsBlock
      BY <1>4, <3>3 DEF Registered, Name, NodeSound, Registering, FindsBlock
    <3>4. CASE ShowsPrompt
      BY <1>4, <3>4 DEF Registered, Name, NodeSound, Registering, ShowsPrompt
    <3>5. main = "sti" /\ main' # main => main' = "greet"
      BY DEF Next, Main, Handler, EnablesInterrupts, ShellInit, FindsBlock, TakesNode, FaultsOnNode,
             TakesKey, LinksNode, ShowsPrompt, Press, TimerFires, OtherRaised, Deliver, DeliverSpurious,
             TimerTick, KeyTypes, EnterRuns, EnterFaults, OtherLine
    <3>6. main = "greet" /\ main' # main => main' = "findNode"
      BY DEF Next, Main, Handler, EnablesInterrupts, ShellInit, FindsBlock, TakesNode, FaultsOnNode,
             TakesKey, LinksNode, ShowsPrompt, Press, TimerFires, OtherRaised, Deliver, DeliverSpurious,
             TimerTick, KeyTypes, EnterRuns, EnterFaults, OtherLine
    <3> QED BY <1>4, <3>1, <3>2, <3>3, <3>4, <3>5, <3>6
  <2>2. TableHolds(Registered)'
    <3>1. \A name \in Registered : node'[name].at # NoBlock /\ (node'[name].key = NoBlock => free' = {})
      BY <1>0, <1>1, <2>1 DEF TableHolds
    <3> QED BY <1>0, <2>1, <3>1 DEF TableHolds
  <2> QED BY <1>2, <2>1, <2>2
<1> QED BY <1>3, <1>4 DEF Next, Main, Handler, EnablesInterrupts, ShellInit, FindsBlock, FaultsOnNode,
             ShowsPrompt, Press, TimerFires, OtherRaised, Deliver, DeliverSpurious,
             TimerTick, KeyTypes, EnterRuns, EnterFaults, OtherLine

LEMMA StutterPreserves ==
  ASSUME Inductive, UNCHANGED vars PROVE Inductive'
<1> SUFFICES ASSUME UNCHANGED <<main, found, current, node, table, free, owners, typed, keys, raced,
                                pending, inService, handler, ticks, halted>>
             PROVE  Inductive'
  BY DEF vars, heapVars, keyVars, tableVars, picVars
<1>1. TypeOK' /\ table' \in [Buckets -> Seq(ToSet(Commands))]
  BY DEF Inductive, TypeOK
<1>2. BlocksSound' /\ NodeSound' /\ BlocksDistinct' /\ TableWhole'
  BY DEF Inductive, BlocksSound, Taking, NodeSound, Name, BlocksDistinct, TableWhole
<1> QED BY <1>1, <1>2 DEF Inductive

-----------------------------------------------------------------------------

(* The inductive invariant holds in every state, whatever interrupts come    *)
(* between the steps of kmain.                                               *)
THEOREM Invariant == Spec => []Inductive
<1>1. Init => Inductive
  BY Initially
<1>2. Inductive /\ [Next]_vars => Inductive'
  <2>1. ASSUME Inductive, Next PROVE Inductive'
    <3>1. CASE LinksNode
      BY <2>1, <3>1, TypesPreserved, BlocksPreserved, LinkPreserves DEF Inductive
    <3>2. CASE ~LinksNode
      BY <2>1, <3>2, TypesPreserved, BlocksPreserved, TablePreserved DEF Inductive
    <3> QED BY <3>1, <3>2
  <2> QED BY <2>1, StutterPreserves
<1> QED BY <1>1, <1>2, PTL DEF Spec

(* The state keeps its types: timer_ticks stays in its word, whatever its    *)
(* width (kernel.c, idt.c, pic.c).                                           *)
THEOREM TypesCorrect == Spec => []TypeOK
BY Invariant, PTL DEF Inductive

(* kmalloc hands out no block twice, however kmain and the handlers that     *)
(* interrupt it are interleaved, but for a block that a command takes while  *)
(* kmain has found it and not yet marked it (memory.c:273-289).              *)
THEOREM BlocksAreDistinct == Spec => []BlocksDistinct
BY Invariant, PTL DEF Inductive

(* Whenever a key can run a command, the table holds exactly the commands    *)
(* registered so far, each once and in its bucket                            *)
(* (command_hashtable.c:19-29).                                              *)
THEOREM TableIsWhole == Spec => []TableWhole
BY Invariant, PTL DEF Inductive
=============================================================================
