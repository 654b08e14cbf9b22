--------------------------- MODULE MCCommandLine ----------------------------
(* Words of one byte, so that numbers wrap within three digits; command names of one *)
(* letter, in three buckets.  Lines: every one of up to five quotes, blanks and e's,  *)
(* and for each command some that reach its checks.                                  *)
EXTENDS CommandLine, TLC

MCNames == [
  help |-> <<104>>, echo |-> <<101>>, calc |-> <<99>>, colorshell |-> <<111>>, quit |-> <<113>>,
  shutdown |-> <<115>>, halt |-> <<116>>, debug |-> <<100>>, ticks |-> <<107>>, meminfo |-> <<105>>,
  alloc |-> <<97>>, runtime |-> <<114>>, strlen |-> <<108>>, strcmp |-> <<109>>,
  strncmp |-> <<110>>, pageinfo |-> <<112>>, clear |-> <<102>>, history |-> <<103>>, heap |-> <<106>>,
  pmminfo |-> <<117>>, memcpy |-> <<118>>, memset |-> <<119>>, maptest |-> <<120>>]
MCOrder == <<"help", "clear", "ticks", "echo", "history", "calc", "colorshell", "quit", "shutdown", "halt",
             "debug", "meminfo", "heap", "alloc", "pmminfo", "memcpy", "memset", "runtime", "strlen", "strcmp",
             "strncmp", "pageinfo", "maptest">>
MCDivideZero == <<122>>

Spaced(words) == FoldLeft(LAMBDA text, word : text \o <<Blank>> \o word, <<>>, words)
Call(name, words) == MCNames[name] \o Spaced(words)
Quoted(text) == <<Quote>> \o text \o <<Quote>>

Numbers == {Unsigned(n) : n \in {0, 1, 2, 7, 127, 128, 255, 256}}
Small == {Unsigned(n) : n \in {0, 1, 15, 16, 17, 255, 300}}
Texts1 == {<<98>>, <<98, 98>>, <<98, 99>>, <<>>}
Addresses == {<<48, 120>> \o digits : digits \in {<<>>, <<49>>, <<97, 69>>, <<65, 55, 68>>, <<70>>, <<51, 103>>}}

Punctuation == UNION {[1 .. n -> {Blank, Quote, 101}] : n \in 0 .. 5}
Tabbed == {<<Tab, 101, Tab, Quote, Tab, Quote, Blank, 49>>}
Crowded == {Call("echo", <<(<<49>>), (<<50>>), (<<51>>), (<<52>>), (<<53>>)>>)}
Calculations ==
  {Call("calc", <<left, <<op>>, right>>) : left \in Numbers, op \in Operators, right \in Numbers}
  \cup {Call("calc", <<Quoted(left \o gap \o <<op>> \o gap \o right)>>) :
          left \in Numbers, op \in Operators, right \in Numbers, gap \in {<<>>, <<Blank>>}}
  \cup {Call("calc", words) : words \in
          {<<>>, <<(<<49>>)>>, <<(<<43>>)>>, <<(<<49, 43>>)>>, <<(<<48, 48, 48, 48, 49, 43, 49>>)>>,
           <<(<<49>>), (<<43>>)>>, <<(<<120>>), (<<43>>), (<<49>>)>>, <<(<<49>>), (<<43, 43>>), (<<49>>)>>,
           <<(<<49>>), (<<120>>), (<<49>>)>>, <<(<<49>>), (<<43>>), (<<120>>)>>,
           <<Quoted(<<49, 43, 50, Blank, 51>>)>>}}
Comparisons ==
  {Call("strcmp", <<Quoted(a), Quoted(b)>>) : a \in Texts1, b \in Texts1}
  \cup {Call("strncmp", <<Quoted(a), Quoted(b), n>>) :
          a \in Texts1, b \in Texts1, n \in {<<48>>, <<49>>, <<50>>, <<57>>, <<120>>}}
Others ==
  {Call(name, words) : name \in DOMAIN MCNames \ {"calc", "echo"},
                       words \in {<<>>, <<(<<111>>)>>, <<(<<122>>)>>, <<(<<104>>)>>, <<(<<98>>), (<<98>>)>>}}
  \cup {Call("alloc", <<size>>) : size \in Small}
  \cup {Call("pageinfo", <<address>>) : address \in Addresses}
  \cup {<<98>>}

MCLines == Punctuation \cup Tabbed \cup Crowded \cup Calculations \cup Comparisons \cup Others

MCTicks == {0, 1, 7, 8, 31, 32, 127, 128, 255}
Entry(type, length) == [type |-> type, length |-> length]
MCMemoryMaps == {<<>>, <<Entry(1, 255), Entry(2, 1), Entry(1, 16)>>,
                 <<Entry(1, 4095), Entry(3, 17), Entry(7, 281), Entry(5, 40)>>}
=============================================================================
