------------------------------- MODULE Startup ------------------------------
(***************************************************************************)
(* kmain from "sti" to its idle loop, and the interrupts that arrive        *)
(* meanwhile: shell_init registers the commands with kmalloc while           *)
(* keyboard_handle may already run one.  A handler runs with interrupts off, *)
(* so handlers do not nest; kmain can be interrupted between any two of the  *)
(* steps below.  The heap is a set of blocks of one size that does not grow; *)
(* KernelHeap has the rest.                                                  *)
(***************************************************************************)
EXTENDS Integers, SequencesExt, FiniteSetsExt

CONSTANTS
  Commands,    \* the table shell_commands, a sequence of names
  Alloc,       \* the command that calls kmalloc
  Bucket,      \* hash(name) % TABLE_SIZE
  Supplies,    \* how many blocks the heap may have: sets 1 .. n
  MaxKeys,     \* bound on the keys that are pressed
  TickModulus, \* timer_ticks is 32 bits wide
  Others       \* the other lines that devices raise

ASSUME StartupAssumption ==
  /\ Commands \in Seq(DOMAIN Bucket) /\ IsInjective(Commands) /\ Alloc \in ToSet(Commands)
  /\ Supplies \subseteq SUBSET (Nat \ {0})
  /\ MaxKeys \in Nat /\ TickModulus \in Nat \ {0}
  /\ Others \subseteq 3 .. 15

Timer == 0
Keyboard == 1
Lines == {Timer, Keyboard} \cup Others

\* Two controllers with eight lines each: the second interrupts through line 2 of the first.
Cascade == 2
First == 0 .. 7
Second == 8 .. 15
ThroughFirst(line) == IF line \in Second THEN Cascade ELSE line
\* The line each reports when the one that was raised has gone.
Spurious == {7, 15}
NoBlock == 0
Blocks == UNION Supplies

VARIABLES
  main,       \* where kmain is
  current,    \* the index of the command being registered
  found,      \* kmalloc's local variable in kmain: the block found
  node,       \* per command, the block of its Node and its key
  table,      \* per bucket, the commands linked, head first
  free,       \* the free blocks
  owners,     \* per block, how often it was handed out
  typed,      \* the line holds a command
  keys,       \* keys pressed so far
  raced,      \* the blocks that a command took while kmain had found them and not marked them
  pending, inService,  \* the lines raised, and those not acknowledged, of both controllers
  handler,    \* the line whose handler runs, or None
  ticks,      \* timer_ticks
  halted      \* an exception stopped the machine

heapVars == <<free, owners>>
keyVars == <<keys, raced>>
tableVars == <<current, node, table>>
picVars == <<pending, inService, handler>>
vars == <<main, found, tableVars, heapVars, typed, keyVars, picVars, ticks, halted>>

None == -1
Buckets == {Bucket[name] : name \in ToSet(Commands)}
Name == Commands[current]

Init ==
  /\ main = "sti" /\ current = 1 /\ found = NoBlock
  /\ node = [name \in ToSet(Commands) |-> [at |-> NoBlock, key |-> NoBlock]]
  /\ table = [b \in Buckets |-> <<>>]
  /\ free \in Supplies /\ owners = [b \in Blocks |-> 0]
  /\ typed = FALSE /\ keys = 0 /\ raced = {}
  /\ pending = {} /\ inService = {} /\ handler = None
  /\ ticks = 0 /\ halted = FALSE

-----------------------------------------------------------------------------
(* kmalloc: heap_find_free_block, then the block is marked and handed out.   *)

FirstFree == IF free = {} THEN NoBlock ELSE Min(free)
\* Mutant: the block stays free.
Marked_NotTaken(block) == owners' = [owners EXCEPT ![block] = @ + 1] /\ UNCHANGED free

Marked(block) == free' = free \ {block} /\ owners' = [owners EXCEPT ![block] = @ + 1]

\* kmain runs while no handler does.
Running == ~halted /\ handler = None

EnablesInterrupts ==
  /\ Running /\ main = "sti" /\ main' = "greet"
  /\ UNCHANGED <<found, tableVars, heapVars, typed, keyVars, picVars, ticks, halted>>

\* shell_init empties the line before it registers the commands.
ShellInit ==
  /\ Running /\ main = "greet" /\ main' = "findNode" /\ typed' = FALSE
  /\ UNCHANGED <<found, tableVars, heapVars, keyVars, picVars, ticks, halted>>

FindsBlock ==
  /\ Running
  /\ \/ main = "findNode" /\ main' = "takeNode"
     \/ main = "findKey" /\ main' = "takeKey"
  /\ found' = FirstFree
  /\ UNCHANGED <<tableVars, heapVars, typed, keyVars, picVars, ticks, halted>>

TakesNode ==
  /\ Running /\ main = "takeNode" /\ found # NoBlock
  /\ Marked(found)
  /\ node' = [node EXCEPT ![Name].at = found]
  /\ main' = "findKey"
  /\ UNCHANGED <<found, current, table, typed, keyVars, picVars, ticks, halted>>

\* register_command writes to the null pointer, a page that is not mapped.
FaultsOnNode ==
  /\ Running /\ main = "takeNode" /\ found = NoBlock
  /\ halted' = TRUE
  /\ UNCHANGED <<main, found, tableVars, heapVars, typed, keyVars, picVars, ticks>>

\* strdup returns null when there is no block, and that becomes the key.
TakesKey ==
  /\ Running /\ main = "takeKey"
  /\ IF found = NoBlock THEN UNCHANGED heapVars ELSE Marked(found)
  /\ node' = [node EXCEPT ![Name].key = found]
  /\ main' = "link"
  /\ UNCHANGED <<found, current, table, typed, keyVars, picVars, ticks, halted>>

\* Mutant: the last command is registered for ever.
LinksNode_NoEnd ==
  /\ Running /\ main = "link"
  /\ table' = [table EXCEPT ![Bucket[Name]] = <<Name>> \o @]
  /\ main' = "findNode"
  /\ current' = IF current < Len(Commands) THEN current + 1 ELSE current
  /\ UNCHANGED <<found, node, heapVars, typed, keyVars, picVars, ticks, halted>>
\* Mutant: the bucket starts anew with every command.
LinksNode_NewBucket ==
  /\ Running /\ main = "link"
  /\ table' = [table EXCEPT ![Bucket[Name]] = <<Name>>]
  /\ IF current < Len(Commands) THEN main' = "findNode" /\ current' = current + 1
     ELSE main' = "prompt" /\ UNCHANGED current
  /\ UNCHANGED <<found, node, heapVars, typed, keyVars, picVars, ticks, halted>>

LinksNode ==
  /\ Running /\ main = "link"
  /\ table' = [table EXCEPT ![Bucket[Name]] = <<Name>> \o @]
  /\ IF current < Len(Commands) THEN main' = "findNode" /\ current' = current + 1
     ELSE main' = "prompt" /\ UNCHANGED current
  /\ UNCHANGED <<found, node, heapVars, typed, keyVars, picVars, ticks, halted>>

\* The prompt is shown and kmain halts until interrupts come.
ShowsPrompt ==
  /\ Running /\ main = "prompt" /\ main' = "idle"
  /\ UNCHANGED <<found, tableVars, heapVars, typed, keyVars, picVars, ticks, halted>>

Main ==
  EnablesInterrupts \/ ShellInit \/ FindsBlock \/ TakesNode \/ FaultsOnNode \/ TakesKey
  \/ LinksNode \/ ShowsPrompt

-----------------------------------------------------------------------------
(* Interrupts.                                                              *)

Press ==
  /\ ~halted /\ keys < MaxKeys /\ Keyboard \notin pending
  /\ keys' = keys + 1
  /\ pending' = pending \cup {Keyboard}
  /\ UNCHANGED <<main, found, tableVars, heapVars, typed, raced, inService, handler, ticks, halted>>

\* Ticks are 10 ms apart: the next one does not come while the last is handled.
TimerFires ==
  /\ ~halted /\ Timer \notin pending /\ handler # Timer
  /\ pending' = pending \cup {Timer}
  /\ UNCHANGED <<main, found, tableVars, heapVars, typed, keyVars, inService, handler, ticks, halted>>

OtherRaised ==
  /\ ~halted /\ \E line \in Others \ pending : pending' = pending \cup {line}
  /\ UNCHANGED <<main, found, tableVars, heapVars, typed, keyVars, inService, handler, ticks, halted>>

Precedes(line, other) ==
  \/ ThroughFirst(line) < ThroughFirst(other)
  \/ ThroughFirst(line) = ThroughFirst(other) /\ line < other

\* Each controller holds back what has no higher priority than a line not acknowledged.
Passes(line) ==
  /\ \A other \in inService \cap First : ThroughFirst(line) < other
  /\ line \in Second => \A other \in inService \cap Second : line < other

\* The line of highest priority is delivered; the gate clears the interrupt flag.
CanDeliver == ~halted /\ handler = None /\ main # "sti"
Deliver(line) ==
  /\ CanDeliver /\ line \in pending
  /\ \A other \in pending \ {line} : Precedes(line, other)
  /\ Passes(line)
  /\ handler' = line /\ pending' = pending \ {line}
  /\ inService' = inService \cup {line, ThroughFirst(line)}
  /\ UNCHANGED <<main, found, tableVars, heapVars, typed, keyVars, ticks, halted>>

\* The second controller is in service at the first then, but no line at the second.
DeliverSpurious(line) ==
  /\ CanDeliver /\ Passes(line)
  /\ handler' = line /\ inService' = inService \cup ({ThroughFirst(line)} \ Spurious)
  /\ UNCHANGED <<main, found, tableVars, heapVars, typed, keyVars, pending, ticks, halted>>

\* A controller that is written to acknowledges its line of highest priority.
Acknowledged(controllers) ==
  {line \in inService : \E lines \in controllers :
                          line \in lines /\ \A other \in inService \cap lines : line <= other}

\* Mutant: only the controller of the line is written to.
pic_send_eoi_Own(irq) == inService' = inService \ Acknowledged({IF irq >= 8 THEN Second ELSE First})

pic_send_eoi(irq) ==
  inService' = inService \ Acknowledged({First} \cup IF irq >= 8 THEN {Second} ELSE {})

\* The end of a handler.
Returns == handler' = None /\ pic_send_eoi(handler) /\ UNCHANGED pending

\* Mutant: the counter is one step wider.
TimerTick_Wide ==
  /\ ~halted /\ handler = Timer
  /\ ticks' = (ticks + 1) % (TickModulus + 1)
  /\ Returns
  /\ UNCHANGED <<main, found, tableVars, heapVars, typed, keyVars, halted>>

TimerTick ==
  /\ ~halted /\ handler = Timer
  /\ ticks' = (ticks + 1) % TickModulus
  /\ Returns
  /\ UNCHANGED <<main, found, tableVars, heapVars, typed, keyVars, halted>>

KeyTypes ==
  /\ ~halted /\ handler = Keyboard /\ ~typed
  /\ typed' = TRUE /\ Returns
  /\ UNCHANGED <<main, found, tableVars, heapVars, keyVars, ticks, halted>>

Linked(name) == name \in ToSet(table[Bucket[name]])

\* lookup_command compares the keys from the head of the bucket on.
Compared(name) == ToSet(table[Bucket[name]])

\* kmain is in kmalloc, between the search and the mark.
Taking == main \in {"takeNode", "takeKey"}

\* Enter: the line is looked up and its command runs in the handler.
EnterRuns ==
  /\ ~halted /\ handler = Keyboard /\ typed
  /\ \A name \in Compared(Alloc) : node[name].key # NoBlock
  /\ IF Linked(Alloc) /\ free # {}
     THEN Marked(FirstFree) /\ raced' = raced \cup {b \in {found} : Taking /\ b = FirstFree}
     ELSE UNCHANGED <<heapVars, raced>>
  /\ typed' = FALSE /\ Returns
  /\ UNCHANGED <<main, found, tableVars, keys, ticks, halted>>

\* strcmp reads the null key; the handler never returns.
EnterFaults ==
  /\ ~halted /\ handler = Keyboard /\ typed
  /\ \E name \in Compared(Alloc) : node[name].key = NoBlock
  /\ halted' = TRUE
  /\ UNCHANGED <<main, found, tableVars, heapVars, typed, keyVars, picVars, ticks>>

OtherLine ==
  /\ ~halted /\ handler \notin {Timer, Keyboard, None} /\ Returns
  /\ UNCHANGED <<main, found, tableVars, heapVars, typed, keyVars, ticks, halted>>

Handler == TimerTick \/ KeyTypes \/ EnterRuns \/ EnterFaults \/ OtherLine

Next ==
  \/ Main \/ Press \/ TimerFires \/ OtherRaised \/ Handler
  \/ (\E line \in Lines : Deliver(line)) \/ (\E line \in Spurious : DeliverSpurious(line))

\* The processor runs, and handlers take far less than the time between two interrupts of
\* a device: neither kmain nor a line of low priority waits for them for ever.
Fairness ==
  /\ SF_vars(Main) /\ WF_vars(Handler) /\ \A line \in Lines : SF_vars(Deliver(line))
Spec == Init /\ [][Next]_vars /\ Fairness

-----------------------------------------------------------------------------
(* Properties.                                                              *)

\* The types of the state of kmain, the command table and the interrupt controller;
\* timer_ticks stays in its word.
TypeOK ==
  /\ main \in {"sti", "greet", "findNode", "takeNode", "findKey", "takeKey", "link", "prompt", "idle"}
  /\ current \in DOMAIN Commands /\ found \in Blocks \cup {NoBlock}
  /\ node \in [ToSet(Commands) -> [at : Blocks \cup {NoBlock}, key : Blocks \cup {NoBlock}]]
  /\ \A b \in Buckets : ToSet(table[b]) \subseteq ToSet(Commands)
  /\ free \subseteq Blocks /\ owners \in [Blocks -> Nat]
  /\ typed \in BOOLEAN /\ keys \in 0 .. MaxKeys /\ raced \subseteq Blocks
  /\ pending \subseteq Lines /\ inService \subseteq Lines \cup {Cascade} /\ handler \in Lines \cup Spurious \cup {None}
  /\ ticks \in 0 .. (TickModulus - 1) /\ halted \in BOOLEAN

\* No block of the heap is handed out twice, by kmain and by the handlers that interrupt
\* it with keys and ticks at any moment, before the prompt too, but for a block that a
\* command takes while kmain's kmalloc has found it and not yet marked it (memory.c:273-289,
\* called from command_hashtable.c:22-23 with interrupts on, and from the alloc command).
BlocksDistinct == \A b \in Blocks \ raced : owners[b] <= 1

\* At every point at which a key can run a command, the table holds exactly the commands
\* registered so far, each in its bucket and once, with a node and a key of their own:
\* an interrupted registration is not visible (command_hashtable.c:19-29).  Only when the
\* heap is used up the key is null.
TableWhole ==
  LET registered == {Commands[i] : i \in 1 .. (current - 1)} \cup
                    IF main \in {"prompt", "idle"} THEN {Name} ELSE {}
  IN  /\ \A b \in Buckets :
           /\ ToSet(table[b]) = {name \in registered : Bucket[name] = b}
           /\ IsInjective(table[b])
      /\ \A name \in registered :
           node[name].at # NoBlock /\ (node[name].key = NoBlock => free = {})

\* An interrupt that is raised is handled, also while kmain is busy, the timer interrupts
\* every 10 ms and the controllers report lines that nobody raised: each handler, also
\* that of a line nobody uses, acknowledges its line at both controllers where there are
\* two, or the lines of lower priority would be dead (idt.c:168-182, pic.c:39-44).
LinesServed == \A line \in Lines : line \in pending ~> line \notin pending \/ halted

\* kernel.c:80 "Frewozet Kernel is ready. Starting Frewozet Shell....": the shell's
\* prompt comes, however many interrupts come before it, if the heap has two blocks for
\* each command besides what keys may take.
ShellStarts ==
  main = "greet" /\ Cardinality(free) >= 2 * Len(Commands) + MaxKeys ~> main = "idle"

\* shell_commands.c:235 "alloc - Allocate memory from heap": also a command entered
\* while the shell is starting gets memory that nothing else has.
EarlyAllocIsOwn == \A b \in Blocks : owners[b] <= 1

-----------------------------------------------------------------------------
(* The inductive invariant behind the theorems of StartupProofs.            *)

Registering == {"takeNode", "findKey", "takeKey", "link"}

\* A free block belongs to nobody, and the block that kmain has found is free until kmain
\* takes it, unless a command has taken it in between.  It is null only when no block is left.
BlocksSound ==
  /\ \A b \in free : owners[b] = 0
  /\ Taking => IF found = NoBlock THEN free = {} ELSE found \in free \cup raced

\* The node that is being registered.
NodeSound ==
  /\ main \in Registering \ {"takeNode"} => node[Name].at # NoBlock
  /\ main = "link" /\ node[Name].key = NoBlock => free = {}
  /\ main \in {"prompt", "idle"} => current = Len(Commands)

Inductive ==
  /\ TypeOK /\ table \in [Buckets -> Seq(ToSet(Commands))]
  /\ BlocksSound /\ NodeSound
  /\ BlocksDistinct /\ TableWhole
=============================================================================
