------------------------------ MODULE MCOneShot ------------------------------
(***************************************************************************)
(* Inputs for the programs of OneShot: laid out disks, calls of myprintf(),*)
(* and paths on the image diskimage.                                       *)
(***************************************************************************)
EXTENDS OneShot

\* A disk: primaries of the given sizes from sector 1 on, an extended partition
\* with logicals of the given sizes (each after its local table), a gap after each
\* logical, more primaries, and free sectors at the end.
Entry(t, s, n) == [sys_type |-> t, start_sector |-> s, nr_sectors |-> n]
Padded(es) == [i \in 1 .. 4 |-> IF i <= Len(es) THEN es[i] ELSE NoEntry]
Total(ns) == FoldSeq(LAMBDA x, y : x + y, 0, ns)

Layout(before, logicals, gap, after, free) ==
  LET slot(n) == n + 1 + gap
      ext == 1 + Total(before)
      table(k) == ext + Total([i \in 1 .. k - 1 |-> slot(logicals[i])])
      nLog == Len(logicals)
      next == IF nLog = 0 THEN ext ELSE table(nLog) + slot(logicals[nLog])
      prims == [i \in DOMAIN before |->
                  Entry(131, 1 + Total(SubSeq(before, 1, i - 1)), before[i])]
      exts == IF nLog = 0 THEN <<>> ELSE <<Entry(Extended, ext, next - ext)>>
      others == [i \in DOMAIN after |->
                   Entry(7, next + Total(SubSeq(after, 1, i - 1)), after[i])]
      local(k) ==
        <<Entry(131, 1, logicals[k])>> \o
        IF k = nLog THEN <<>>
        ELSE <<Entry(Extended, table(k + 1) - ext, slot(logicals[k + 1]))>>
      tables == {table(k) : k \in 1 .. nLog}
  IN  [sectors |-> next + Total(after) + free,
       table |-> [s \in {0} \cup tables |->
                    IF s = 0 THEN Padded(prims \o exts \o others)
                    ELSE Padded(local(CHOOSE k \in 1 .. nLog : table(k) = s))]]

MCDisks ==
  {Layout(b, l, g, a, f) : b \in {<<>>, <<2>>, <<1, 3>>, <<2, 1, 2>>},
                           l \in {<<>>, <<2>>, <<1, 3>>, <<3, 1, 2>>},
                           g \in {0, 1}, a \in {<<>>, <<2>>}, f \in {0, 1}}
  \cup {[sectors |-> 4, table |-> [s \in {0} |-> Padded(<<NoEntry, Entry(7, 1, 3)>>)]],
        [sectors |-> 8, table |->
           [s \in 0 .. 2 |-> Padded(IF s = 2 THEN <<Entry(131, 1, 3)>>
                                    ELSE <<Entry(Extended, 1, 7 - 2 * s)>>)]]}

\* Single conversions of every word, and formats with several and with faults.
Values == -64 .. 63
One(t, w) == [fmt |-> <<"n", "%", t, "\n">>, args |-> <<w>>]
MCMemory == [a \in {40, 41} |-> IF a = 40 THEN <<"h", "i">> ELSE <<>>]
MCGlyph == [c \in {65, 66} |-> IF c = 65 THEN "A" ELSE "B"]
MCPrints ==
  {One(t, w) : t \in {"u", "d", "o", "x"}, w \in Values}
  \cup {[fmt |-> <<"%", "s", "%", "d", ",", "%", "c", "%", "x">>, args |-> <<a, v, c, w>>] :
          a \in {40, 41}, v \in {-64, -1, 7}, c \in {65, 66}, w \in {-1, 16, 63}}
  \cup {[fmt |-> <<"%", "%", "u", "%">>, args |-> <<65>>]}

E(n, i) == [name |-> n, ino |-> i]
P(k, ns) == [kind |-> k, names |-> ns]
MCInodes == {2} \cup 11 .. 18
MCDirs == {2, 11, 12, 14, 16}
MCNames == {".", "..", "lost+found", "X", "Y", "Z", "tiny", "bigfile", "hugefile", "nosuch"}
MCDisk ==
  [d \in MCDirs |->
     CASE d = 2 -> <<E(".", 2), E("..", 2), E("lost+found", 11), E("X", 12),
                     E("Y", 14), E("Z", 16), E("tiny", 18)>>
       [] d = 11 -> <<E(".", 11), E("..", 2)>>
       [] d = 12 -> <<E(".", 12), E("..", 2), E("tiny", 13)>>
       [] d = 14 -> <<E(".", 14), E("..", 2), E("bigfile", 15)>>
       [] d = 16 -> <<E(".", 16), E("..", 2), E("hugefile", 17)>>]

MCPaths ==
  {NoPath, P("root", <<>>), P("abs", <<"Z", "hugefile">>), P("abs", <<"tiny">>),
   P("rel", <<"X", "tiny">>), P("abs", <<"X", "..", "tiny">>), P("abs", <<"Z">>),
   P("abs", <<"tiny", "X">>), P("abs", <<"Y", "nosuch">>), P("abs", <<"nosuch">>),
   P("abs", <<"Y", "..", "X", "tiny">>)}
MCRequests == {[path |-> p, device |-> "ext2"] : p \in MCPaths}
              \cup {[path |-> NoPath, device |-> d] : d \in {"none", "other"}}
=============================================================================
