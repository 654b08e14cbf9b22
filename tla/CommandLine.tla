----------------------------- MODULE CommandLine ----------------------------
(***************************************************************************)
(* What happens to a line when Enter is pressed: shell_tokenize, the look-up *)
(* in the command table, the command's handler, and the new prompt.  The    *)
(* tokenizer writes terminators into the line it walks over; its steps are  *)
(* taken character by character.  A reply is a message with the texts in it. *)
(***************************************************************************)
EXTENDS Texts

CONSTANTS
  Lines,                   \* the lines that are typed
  MaxArgs,                 \* SHELL_MAX_ARGS, 16
  Names,                   \* the texts of the command names
  Order,                   \* the commands in the order of their registration
  TableSize, HashFactor,   \* TABLE_SIZE and the factor of hash
  MaxDigits,               \* sizeof(left_buf), 32
  DivideZero,              \* the argument of debug
  DefaultSize,             \* what alloc asks for without a size, 64
  Frequency, Ticks,        \* of the timer: 100, and the counts seen
  Minute,                  \* 60
  MemoryMaps               \* what the firmware may have reported: types and lengths

Commands == DOMAIN Names
None == "none"

ASSUME CommandLineAssumption ==
  /\ MaxArgs \in Nat \ {0} /\ MaxDigits \in Nat
  /\ TableSize \in Nat \ {0} /\ HashFactor \in Nat
  /\ Lines \subseteq Seq(Characters) /\ \A name \in Commands : Names[name] \in Seq(Characters)
  /\ Order \in Seq(Commands) /\ ToSet(Order) = Commands /\ IsInjective(Order)
  /\ None \notin Commands
  /\ MemoryMaps \subseteq Seq([type : Nat, length : Nat])
  /\ Frequency \in Nat \ {0, 1} /\ Minute \in Nat \ {0} /\ Ticks \subseteq Words
  /\ DefaultSize \in Words

VARIABLES
  pc,         \* where shell_handle_char is: idle, between, word, quoted, look, run,
              \* answered; or halted
  line,       \* history: the line as it was typed
  buffer,     \* shell_buffer from the first character to the terminator
  p,          \* the tokenizer's pointer
  argv,       \* where the arguments begin
  command,    \* the command found, or None
  colorMode,  \* color_mode
  reply       \* what has been written, and what it is about

vars == <<pc, line, buffer, p, argv, command, colorMode, reply>>

Silent == [says |-> "", shows |-> <<>>, of |-> <<>>]
Shows(message, texts) == reply' = [says |-> message, shows |-> texts, of |-> <<>>]
Says(message) == Shows(message, <<>>)

\* The C string that begins at a place of an array.
CString(array, begin) ==
  LET end == Min({j \in DOMAIN array : j >= begin /\ array[j] = 0})
  IN  [j \in 1 .. (end - begin) |-> array[begin + j - 1]]

Argument(i) == CString(buffer, argv[i])
argc == Len(argv)
Arguments == [i \in 1 .. argc |-> Argument(i)]

Init ==
  /\ pc = "idle" /\ line = <<>> /\ buffer = <<0>> /\ p = 1 /\ argv = <<>>
  /\ command = None /\ colorMode = FALSE /\ reply = Silent

Enter(typed) ==
  /\ pc = "idle" /\ pc' = "between"
  /\ line' = typed /\ buffer' = Append(typed, 0) /\ p' = 1
  /\ UNCHANGED <<argv, command, colorMode, reply>>

-----------------------------------------------------------------------------
(* shell_tokenize                                                           *)

Here == buffer[p]
Goes(to) == pc' = to /\ p' = p + 1
Ends == buffer' = [buffer EXCEPT ![p] = 0] /\ Goes("between")

SkipBlank == pc = "between" /\ Here \in Blanks /\ Goes("between") /\ UNCHANGED <<buffer, argv>>

\* Mutant: the limit does not end the loop.
EndOfLine_NoLimit ==
  /\ pc = "between" /\ Here = 0
  /\ pc' = "look" /\ UNCHANGED <<p, buffer, argv>>

EndOfLine ==
  /\ pc = "between"
  /\ Here = 0 \/ (Here \notin Blanks /\ argc >= MaxArgs)
  /\ pc' = "look" /\ UNCHANGED <<p, buffer, argv>>

Starts == pc = "between" /\ Here \notin Blanks \cup {0} /\ argc < MaxArgs
OpenQuote == Starts /\ Here = Quote /\ argv' = Append(argv, p + 1) /\ Goes("quoted") /\ UNCHANGED buffer
StartWord == Starts /\ Here # Quote /\ argv' = Append(argv, p) /\ Goes("word") /\ UNCHANGED buffer

\* Mutant: a quote ends a word too.
Ending_AnyQuote(in) == IF in = "quoted" THEN {Quote} ELSE Blanks \cup {Quote}

Ending(in) == IF in = "quoted" THEN {Quote} ELSE Blanks

InWord ==
  /\ pc \in {"word", "quoted"} /\ UNCHANGED argv
  /\ \/ Here = 0 /\ pc' = "between" /\ UNCHANGED <<p, buffer>>
     \/ Here \in Ending(pc) /\ Ends
     \/ Here \notin Ending(pc) \cup {0} /\ Goes(pc) /\ UNCHANGED buffer

Tokenize ==
  /\ SkipBlank \/ EndOfLine \/ OpenQuote \/ StartWord \/ InWord
  /\ UNCHANGED <<line, command, colorMode, reply>>

-----------------------------------------------------------------------------
(* The command table                                                        *)

hash(text) ==
  LET upTo[n \in 0 .. Len(text)] ==
        IF n = 0 THEN 0 ELSE (upTo[n - 1] + HashFactor * text[n]) % Word
  IN  upTo[Len(text)]
BucketOf(text) == hash(text) % TableSize

\* Each bucket's commands, the one registered last first.
Buckets ==
  LET after[n \in 0 .. Len(Order)] ==
        IF n = 0 THEN [bucket \in 0 .. (TableSize - 1) |-> <<>>]
        ELSE [after[n - 1] EXCEPT ![BucketOf(Names[Order[n]])] = <<Order[n]>> \o @]
  IN  after[Len(Order)]

\* Mutant: only the head of the bucket is compared.
Found_HeadOnly(text) ==
  LET chain == Buckets[BucketOf(text)]
  IN  IF chain # <<>> /\ strcmp(Names[chain[1]], text) = 0 THEN chain[1] ELSE None

\* lookup_command, and the walk of help from lookup_command_node.
Found(text) ==
  LET chain == Buckets[BucketOf(text)]
      hits  == {i \in DOMAIN chain : strcmp(Names[chain[i]], text) = 0}
  IN  IF hits = {} THEN None ELSE chain[Min(hits)]

Stop == pc' = "halted" /\ UNCHANGED <<line, buffer, p, argv, command, colorMode>>

LookUp ==
  /\ pc = "look" /\ argc > 0
  /\ command' = Found(Argument(1)) /\ pc' = "run"
  /\ UNCHANGED <<line, buffer, p, argv, colorMode, reply>>

\* Without an argument, argv[0] is what the stack holds: it may point to anything, also
\* to the name of a command in an earlier line.
LookUpUnset ==
  /\ pc = "look" /\ argc = 0
  /\ \/ command' \in Commands \cup {None} /\ pc' = "run"
        /\ UNCHANGED <<line, buffer, p, argv, colorMode, reply>>
     \/ Stop /\ UNCHANGED reply

-----------------------------------------------------------------------------
(* The handlers                                                             *)

Runs(name) == pc = "run" /\ command = name
Answered == pc' = "answered" /\ UNCHANGED <<line, buffer, p, argv, command, colorMode>>

\* Whether there is an argument behind the command and n - 1 others.
Given(n) == argc > n

NoSuchCommand == Runs(None) /\ Answered /\ Says("no_such_command_found")

cmd_echo == Runs("echo") /\ Answered /\ Shows("echo", SubSeq(Arguments, 2, argc))

cmd_strlen ==
  /\ Runs("strlen") /\ Answered
  /\ IF Given(1) THEN Shows("length", <<Decimal(Len(Argument(2)))>>) ELSE Says("usage")

Number(text) == DecimalValue(DigitsAt(text, 1))
IsNumber(text) == DigitsAt(text, 1) # <<>>
Difference(d) == Decimal(IF d < 0 THEN Word + d ELSE d)

cmd_strcmp ==
  /\ Runs("strcmp") /\ Answered
  /\ IF Given(2) THEN Shows("strcmp", <<Difference(strcmp(Argument(2), Argument(3)))>>)
     ELSE Says("usage")

cmd_strncmp ==
  /\ Runs("strncmp") /\ Answered
  /\ IF ~Given(3) THEN Says("usage")
     ELSE IF ~IsNumber(Argument(4)) THEN Says("invalid_number")
     ELSE Shows("strncmp", <<Difference(strncmp(Argument(2), Argument(3), Number(Argument(4))))>>)

\* The mapping it then prints is paging_translate's.
cmd_pageinfo ==
  /\ Runs("pageinfo") /\ Answered
  /\ IF ~Given(1) THEN Says("usage")
     ELSE IF ~HasHexPrefix(Argument(2)) THEN Says("invalid_address")
     ELSE \E virt \in HexValues(Argument(2)) : Shows("virtual", <<Hex(virt)>>)

\* The commands whose work is in other modules: the screen, the history and the frames in
\* Shell and Pmm, the heap in KernelHeap, which says when those that take memory stop.
TakeMemory == {"alloc", "memcpy", "memset", "maptest"}
Elsewhere == {"clear", "history", "pmminfo", "heap"} \cup (TakeMemory \ {"alloc"})

cmd_elsewhere ==
  /\ pc = "run" /\ command \in Elsewhere
  /\ Answered /\ Says("done")

FaultsInMemory == pc = "run" /\ command \in TakeMemory /\ Stop /\ Says("page_fault")

\* The size that is asked of kmalloc, which may refuse it, and refuses 0.
SizeAsked == IF Given(1) /\ IsNumber(Argument(2)) THEN Number(Argument(2)) ELSE DefaultSize

cmd_alloc ==
  /\ Runs("alloc") /\ Answered
  /\ \/ Says("allocation_failed")
     \/ SizeAsked # 0 /\ LET size == FormatBytes(SizeAsked) IN
        reply' = [says |-> "allocated", shows |-> <<size.number, size.tenths>>, of |-> <<size.unit>>]

\* The help text stands for its command.
cmd_help ==
  /\ Runs("help") /\ argc > 0 /\ Answered
  /\ reply' = [says |-> "help", shows |-> <<>>,
                of |-> IF argc > 1 THEN <<Found(Argument(2))>>
                       ELSE FlattenSeq([i \in 1 .. TableSize |-> Buckets[i - 1]])]

\* Run for a line without arguments, it looks up what the stack holds.
HelpOfUnset ==
  /\ Runs("help") /\ argc = 0
  /\ \/ Stop /\ UNCHANGED reply
     \/ Answered /\ \E name \in Commands \cup {None} : reply' = [says |-> "", shows |-> <<>>, of |-> <<name>>]

cmd_colorshell ==
  /\ Runs("colorshell")
  /\ pc' = "answered" /\ colorMode' = TRUE
  /\ Says(IF colorMode THEN "already" ELSE "welcome")
  /\ UNCHANGED <<line, buffer, p, argv, command>>

cmd_quit ==
  /\ Runs("quit") /\ pc' = "answered"
  /\ IF Given(1) /\ strcmp(Argument(2), Names["colorshell"]) = 0
     THEN colorMode' = FALSE /\ Says(IF colorMode THEN "returned" ELSE "not_in_ColorShell")
     ELSE Says("usage") /\ UNCHANGED colorMode
  /\ UNCHANGED <<line, buffer, p, argv, command>>

\* The emulators that know one of the ports turn the machine off.
cmd_shutdown ==
  /\ Runs("shutdown")
  /\ \/ Stop /\ Says("shutting_down")
     \/ Answered /\ Says("no_shutdown")

cmd_halt == Runs("halt") /\ Stop /\ Says("halting")

cmd_debug ==
  /\ Runs("debug")
  /\ IF Given(1) /\ strcmp(Argument(2), DivideZero) = 0 THEN Stop /\ Says("dividing")
     ELSE Answered /\ Says("usage")

SumOf(numbers) ==
  LET upTo[n \in 0 .. Len(numbers)] == IF n = 0 THEN 0 ELSE upTo[n - 1] + numbers[n]
  IN  upTo[Len(numbers)]

\* The types 1 to 5 of the memory map have sums of their own, the others one together.
Kinds == 1 .. 6
KindOf(entry) == IF entry.type \in 1 .. 5 THEN entry.type ELSE 6
MemoryTotals(map) ==
  [kind \in Kinds |-> SumOf([i \in DOMAIN map |-> IF KindOf(map[i]) = kind THEN map[i].length ELSE 0])]

cmd_meminfo ==
  /\ Runs("meminfo") /\ Answered
  /\ \E map \in MemoryMaps :
       LET totals == MemoryTotals(map) IN
       reply' = [says |-> "meminfo", shows |-> <<>>,
                 of |-> <<map, FormatBytes(SumOf(totals)),
                          [kind \in Kinds |-> FormatBytes(totals[kind])]>>]

cmd_ticks ==
  /\ Runs("ticks") /\ Answered
  /\ \E ticks \in Ticks : Shows("ticks", <<Decimal(ticks)>>)

cmd_runtime ==
  /\ Runs("runtime") /\ Answered
  /\ \E ticks \in Ticks :
       LET seconds == ticks \div Frequency
           hours   == seconds \div (Minute * Minute)
           minutes == (seconds % (Minute * Minute)) \div Minute
       IN  reply' = [says |-> "runtime", of |-> <<ticks>>,
                     shows |-> <<IF hours > 0 THEN Decimal(hours) ELSE <<>>,
                                 IF hours > 0 \/ minutes > 0 THEN Decimal(minutes) ELSE <<>>,
                                 Decimal(seconds % Minute)>>]

-----------------------------------------------------------------------------
(* calc: its two forms, its checks in their order, and the result.          *)

Plus == 43  Times == 42  Slash == 47  Caret == 94
Operators == {Plus, Minus, Times, Slash, Caret}

Refuses(message) == [error |-> message, left |-> 0, op |-> 0, right |-> 0]
Operation(left, op, right) == [error |-> "", left |-> left, op |-> op, right |-> right]

\* calc "<a> <op> <b>"
OneArgument(text) ==
  LET from   == Skipped(text, 1, Blanks)
      left   == DigitsAt(text, from)
      opAt   == Skipped(text, from + Len(left), Blanks)
      right  == DigitsAt(text, Skipped(text, opAt + 1, Blanks))
  IN  IF left = <<>> THEN Refuses("expected_first_number")
      ELSE IF Len(left) >= MaxDigits THEN Refuses("number_too_long")
      ELSE IF CharAt(text, opAt) \notin Operators THEN Refuses("expected_operator")
      ELSE IF right = <<>> THEN Refuses("invalid_number")
      ELSE Operation(DecimalValue(left), text[opAt], DecimalValue(right))

\* calc <a> <op> <b>
ThreeArguments(left, op, right) ==
  IF ~IsNumber(left) THEN Refuses("invalid_first_number")
  ELSE IF Len(op) # 1 THEN Refuses("operator_must_be_one_character")
  ELSE IF op[1] \notin Operators THEN Refuses("expected_operator")
  ELSE IF ~IsNumber(right) THEN Refuses("invalid_second_number")
  ELSE Operation(Number(left), op[1], Number(right))

Power(left, right) ==
  LET after[n \in 0 .. right] == IF n = 0 THEN 1 ELSE (after[n - 1] * left) % Word
  IN  after[right]

\* Mutant: the difference is not turned round.
Result_OneWay(left, op, right) ==
  CASE op = Plus  -> Decimal((left + right) % Word)
    [] op = Minus -> IF left >= right THEN Decimal(left - right)
                     ELSE <<Minus>> \o Decimal((left - right) % Word)
    [] op = Times -> Decimal((left * right) % Word)
    [] op = Slash -> Decimal(left \div right)
    [] op = Caret -> Decimal(Power(left, right))

Result(left, op, right) ==
  CASE op = Plus  -> Decimal((left + right) % Word)
    [] op = Minus -> IF left >= right THEN Decimal(left - right) ELSE <<Minus>> \o Decimal(right - left)
    [] op = Times -> Decimal((left * right) % Word)
    [] op = Slash -> Decimal(left \div right)
    [] op = Caret -> Decimal(Power(left, right))

Calculates(do) ==
  IF do.error # "" THEN Says(do.error)
  ELSE IF do.op = Slash /\ do.right = 0 THEN Says("division_by_zero")
  ELSE Shows("=", <<Result(do.left, do.op, do.right)>>)

\* With two arguments or four there is something to calculate.
Asked ==
  CASE argc = 2 -> {OneArgument(text) : text \in {Argument(2)}}
    [] argc = 4 -> {ThreeArguments(a, b, c) : a \in {Argument(2)}, b \in {Argument(3)}, c \in {Argument(4)}}
    [] OTHER -> {}

cmd_calc ==
  /\ Runs("calc") /\ Answered
  /\ \/ Asked = {} /\ Says("usage")
     \/ \E do \in Asked : Calculates(do)

-----------------------------------------------------------------------------
Handler ==
  \/ NoSuchCommand \/ cmd_help \/ HelpOfUnset \/ cmd_echo \/ cmd_calc \/ cmd_colorshell \/ cmd_quit
  \/ cmd_shutdown \/ cmd_halt \/ cmd_debug \/ cmd_ticks \/ cmd_meminfo \/ cmd_alloc \/ cmd_runtime
  \/ cmd_strlen \/ cmd_strcmp \/ cmd_strncmp \/ cmd_pageinfo \/ cmd_elsewhere \/ FaultsInMemory

\* The rest of shell_handle_char; the next line may be typed.
ShowsPrompt ==
  /\ pc = "answered" /\ pc' = "idle"
  /\ line' = <<>> /\ buffer' = <<0>> /\ p' = 1 /\ argv' = <<>> /\ command' = None
  /\ reply' = Silent /\ UNCHANGED colorMode

Work == Tokenize \/ LookUp \/ LookUpUnset \/ Handler \/ ShowsPrompt
Next == Work \/ \E typed \in Lines : Enter(typed)

\* The keyboard handler runs the line to its end.
Spec == Init /\ [][Next]_vars /\ WF_vars(Work)

-----------------------------------------------------------------------------
(* Properties, and what their terms mean.                                   *)

FirstAt(text, from, set) ==
  Min({i \in from .. (Len(text) + 1) : i = Len(text) + 1 \/ text[i] \in set})

\* The words from each place of a text on: a word begins behind the blanks and ends before
\* the next blank, or, when it begins with a quote, between this and the next one.
WordsFrom(text) ==
  LET from[i \in 1 .. (Len(text) + 2)] ==
        IF i > Len(text) THEN <<>>
        ELSE IF text[i] \in Blanks THEN from[i + 1]
        ELSE LET quoted == text[i] = Quote
                 begin  == IF quoted THEN i + 1 ELSE i
                 end    == FirstAt(text, begin, IF quoted THEN {Quote} ELSE Blanks)
             IN  <<SubSeq(text, begin, end - 1)>> \o from[end + 1]
  IN  from

WordsOf == WordsFrom(line)[1]

\* The arguments that the handlers read out of the line are the words of the line as it
\* was typed, up to the limit, although the tokenizer has written into it, and its pointer
\* never leaves the line (shell_parser.c:3-38).
ArgumentsAreWords ==
  /\ p \in DOMAIN buffer
  /\ pc \in {"look", "run", "answered"} =>
       Arguments = SubSeq(WordsOf, 1, Min({MaxArgs, Len(WordsOf)}))

\* What makes it so, step by step: the tokenizer has written only behind words that it is
\* done with, each of these has its terminator, and with what is left of the line they
\* make up its words.
Types ==
  /\ pc \in {"idle", "between", "word", "quoted", "look", "run", "answered", "halted"}
  /\ line \in Seq(Nat \ {0}) /\ buffer \in [1 .. (Len(line) + 1) -> Nat]
  /\ p \in 1 .. (Len(line) + 1)
  /\ argv \in Seq(1 .. (Len(line) + 1)) /\ argc <= MaxArgs

UnreadIsLine == \A j \in p .. (Len(line) + 1) : buffer[j] = CharAt(line, j)

Finished == IF pc \in {"word", "quoted"} THEN argc - 1 ELSE argc
FinishedArguments == [i \in 1 .. Finished |-> Argument(i)]
FinishedEnd == \A i \in 1 .. Finished : \E end \in argv[i] .. p : buffer[end] = 0

WordSoFar ==
  pc \in {"word", "quoted"} =>
    /\ argc > 0 /\ argv[argc] <= p
    /\ \A j \in argv[argc] .. (p - 1) : buffer[j] = line[j] /\ line[j] \notin Ending(pc)

WordsAddUp ==
  /\ pc = "between" => WordsOf = Arguments \o WordsFrom(line)[p]
  /\ pc \in {"word", "quoted"} =>
       LET end == FirstAt(line, argv[argc], Ending(pc))
       IN  WordsOf = FinishedArguments
                       \o <<SubSeq(line, argv[argc], end - 1)>> \o WordsFrom(line)[end + 1]

NothingTyped == pc = "idle" => line = <<>> /\ p = 1 /\ argv = <<>>

Inductive ==
  Types /\ UnreadIsLine /\ FinishedEnd /\ WordSoFar /\ WordsAddUp /\ NothingTyped /\ ArgumentsAreWords

AllDigits(text) == text # <<>> /\ \A i \in DOMAIN text : text[i] \in Digits
Value(text) ==
  LET upTo[n \in 0 .. Len(text)] == IF n = 0 THEN 0 ELSE 10 * upTo[n - 1] + text[n] - 48
  IN  upTo[Len(text)]
IntegerIn(text) == IF text[1] = Minus THEN -Value(Tail(text)) ELSE Value(text)
SaysInteger(text, n) ==
  /\ AllDigits(IF text[1] = Minus THEN Tail(text) ELSE text)
  /\ IntegerIn(text) = n /\ Len(text) <= Len(Unsigned(IF n < 0 THEN -n ELSE n)) + (IF n < 0 THEN 1 ELSE 0)

\* A text without the blanks around it.
Trimmed(text) ==
  LET dark == {i \in DOMAIN text : text[i] \notin Blanks}
  IN  IF dark = {} THEN <<>> ELSE SubSeq(text, Min(dark), Max(dark))

Bounded(n) == Min({n, Word})
PowerUpTo(left, right) ==
  LET after[n \in 0 .. right] == IF n = 0 THEN 1 ELSE Bounded(after[n - 1] * left) IN after[right]
Exact(left, op, right) ==
  CASE op = Plus  -> left + right
    [] op = Minus -> left - right
    [] op = Times -> left * right
    [] op = Slash -> left \div right
    [] op = Caret -> PowerUpTo(left, right)

IsSigned(n) == 2 * n < Word /\ 2 * n > -Word
AnswersExactly(answer, left, op, right) ==
  /\ AllDigits(left) /\ AllDigits(right) /\ op \in Operators
  /\ Value(left) < Word /\ Value(right) < Word
  => IF op = Slash /\ Value(right) = 0 THEN answer.says = "division_by_zero"
     ELSE LET exact == Exact(Value(left), op, Value(right))
          IN  answer.says = "=" /\ (IsSigned(exact) => SaysInteger(answer.shows[1], exact))

\* calc answers with the exact result, in either form, whenever the numbers are words and
\* the result is a signed one; it refuses a division by zero and nothing else of that
\* form but, in one argument, a first number with too many digits
\* (shell_commands.c:61-192, terminal.c:176-182).
CalcIsExact ==
  pc = "answered" /\ command = "calc" =>
    /\ argc = 4 /\ Len(Argument(3)) = 1 => AnswersExactly(reply, Argument(2), Argument(3)[1], Argument(4))
    /\ argc = 2 =>
         \A at \in DOMAIN Argument(2) :
           LET left  == Trimmed(SubSeq(Argument(2), 1, at - 1))
               right == Trimmed(SubSeq(Argument(2), at + 1, Len(Argument(2))))
           IN  Len(left) < MaxDigits => AnswersExactly(reply, left, Argument(2)[at], right)

Before(a, b) ==
  \E n \in 0 .. Len(a) :
    /\ n <= Len(b) /\ SubSeq(a, 1, n) = SubSeq(b, 1, n)
    /\ n < Len(b) /\ (n = Len(a) \/ a[n + 1] < b[n + 1])

Compares(text, a, b) ==
  /\ IntegerIn(text) = 0 <=> a = b
  /\ IntegerIn(text) < 0 <=> Before(a, b)

FirstOf(text, n) == SubSeq(text, 1, Min({n, Len(text)}))

Capital(char) == IF char \in 97 .. 102 THEN char - 32 ELSE char
LastDigits(text) ==
  [i \in 1 .. HexDigits |-> LET from == Len(text) - HexDigits + i
                           IN  IF from > 2 THEN Capital(text[from]) ELSE 48]
\* 'F' is not among the digits that parse_hex32 reads as it should.
ReadsAsWritten(text) ==
  HasHexPrefix(text) /\ \A i \in 3 .. Len(text) : text[i] \in Digits \cup (65 .. 69) \cup (97 .. 102)

\* In tenths of the unit, rounded down; the number is below Kilo but for the largest unit.
SaysSize(format, bytes) ==
  LET tenths == IF format.tenths = <<>> THEN 0 ELSE Value(format.tenths)
  IN  /\ 10 * Value(format.number) + tenths = (10 * bytes) \div Unit(format.unit)
      /\ tenths < 10 /\ (format.unit < 3 => Value(format.number) < Kilo)
      /\ format.unit > 0 => Value(format.number) > 0

\* The command that runs, or whose help is shown, is the one of that name.
IsCommandOf(name, text) ==
  IF \E other \in Commands : Names[other] = text THEN name # None /\ Names[name] = text
  ELSE name = None

CommandIsNamed == argc > 0 => IsCommandOf(command, Argument(1))

HelpIsTrue ==
  reply.says = "help" =>
    IF argc > 1 THEN IsCommandOf(reply.of[1], Argument(2))
    ELSE argc = 1 => Len(reply.of) = Cardinality(Commands) /\ ToSet(reply.of) = Commands

ComparisonsAreTrue ==
  /\ reply.says = "strcmp" => Compares(reply.shows[1], Argument(2), Argument(3))
  /\ reply.says = "strncmp" =>
       LET n == Number(Argument(4))
       IN  Compares(reply.shows[1], FirstOf(Argument(2), n), FirstOf(Argument(3), n))

AddressIsRead ==
  reply.says = "virtual" /\ ReadsAsWritten(Argument(2)) => reply.shows[1] = LastDigits(Argument(2))

SizeIsTrue ==
  reply.says = "allocated" =>
    SaysSize([number |-> reply.shows[1], tenths |-> reply.shows[2], unit |-> reply.of[1]], SizeAsked)

PartOfTime(i) == IF reply.shows[i] = <<>> THEN 0 ELSE Value(reply.shows[i])
TimesAddUp ==
  reply.says = "runtime" =>
    /\ PartOfTime(2) < Minute /\ PartOfTime(3) < Minute
    /\ (PartOfTime(1) * Minute + PartOfTime(2)) * Minute + PartOfTime(3) = reply.of[1] \div Frequency

LengthOf(map, types) ==
  SumOf([i \in DOMAIN map |-> IF map[i].type \in types THEN map[i].length ELSE 0])
MapAddsUp ==
  reply.says = "meminfo" =>
    /\ SaysSize(reply.of[2], LengthOf(reply.of[1], Nat))
    /\ \A kind \in 1 .. 5 : SaysSize(reply.of[3][kind], LengthOf(reply.of[1], {kind}))

\* The other answers say what is so: the command that ran is the one named, also where
\* names share a bucket of the table; help lists every command once, and finds one as the
\* shell does; comparisons order texts as a dictionary does, with strncmp for the first
\* characters only; pageinfo reads an address as it is written, but for the digit 'F';
\* sizes are rounded down to a tenth of their unit; the parts of the running time make up
\* the ticks; the memory map's totals count every entry once
\* (shell_commands.c:267-297, 398-489, 600-693; string.c; utils.c).
AnswersAreTrue ==
  pc = "answered" =>
    /\ CommandIsNamed /\ HelpIsTrue
    /\ ComparisonsAreTrue /\ AddressIsRead
    /\ SizeIsTrue /\ TimesAddUp /\ MapAddsUp

\* What makes it so: only characters are in the line, and the command that has been looked
\* up is the one named.
Ascii == \A j \in DOMAIN buffer : buffer[j] \in Characters \cup {0}
CommandFits ==
  pc \in {"run", "answered"} => command \in Commands \cup {None} /\ CommandIsNamed

InductiveAnswers == Inductive /\ Ascii /\ CommandFits /\ AnswersAreTrue

MayStop ==
  /\ pc = "halted"
  /\ \/ argc = 0 \/ command \in {"halt", "shutdown"} \cup TakeMemory
     \/ command = "debug" /\ argc > 1 /\ Argument(2) = DivideZero

\* Every line is answered and the prompt comes back to type the next, whatever was typed,
\* unless the command was one that stops the machine, or takes memory when there is none
\* (StopsOnlyWhenExhausted of KernelHeap), or the line had no word in it (shell.c:275-299).
LineIsAnswered == pc = "between" ~> (pc = "idle" \/ MayStop)

=============================================================================
