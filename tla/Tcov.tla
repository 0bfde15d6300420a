-------------------------------- MODULE Tcov --------------------------------
(***************************************************************************)
(* The runtime of "tcc -ftest-coverage" (lib/tcov.c).  A process that ends *)
(* reads the coverage file its predecessors left, adds its own counters    *)
(* and writes it anew, under a lock on the file.  A process may be killed  *)
(* at any time, and the program may be linked again (tcc_tcov_add_file()   *)
(* in tccelf.c), which unlinks the file while others have it open.         *)
(*                                                                         *)
(* The file is a sequence of characters, since it goes out in buffers that *)
(* end anywhere in a line, over an old text whose lines may lie elsewhere. *)
(* The columns are narrower than the code's, and what no reader looks at   *)
(* (source text, names of functions, the digits of a percentage) is one    *)
(* character each.                                                         *)
(***************************************************************************)
EXTENDS Integers, Sequences, FiniteSets, SequencesExt

CONSTANTS
  Process, None,
  Programs,            \* what the compiler may have recorded: see Program
  Sources,             \* the lines of each source file, 0 when it cannot be opened
  Counts,              \* what a counter may hold when a process ends
  Chunk,               \* the length of a buffer of stdio: more than the first line's
  MaxLinks, MaxKills   \* bounds

VARIABLES
  program, source,     \* what runs, and what is left of its source; they stay as they are
  pc, fd, counted, out,  \* of a process: its step, the file it opened, its counters, what to write
  link, disk, lock,    \* the file that has the name; of a file: its text, who holds the lock
  total                \* of a file: how often it was written, how often a part of it was
                       \* (torn); how often, and the sum of what was, stored since then

world == <<program, source>>
files == <<link, disk, lock>>
vars == <<world, pc, fd, counted, out, files, total>>

-----------------------------------------------------------------------------
(* The counters.  The section .tcov is a sequence of files, each with a    *)
(* sequence of functions, each with a sequence of blocks; a header that    *)
(* several units include is there several times.                           *)
AddFunction(fs, f) ==
  IF \E i \in DOMAIN fs : fs[i].function = f.function
    THEN [i \in DOMAIN fs |-> IF fs[i].function = f.function
                                THEN [fs[i] EXCEPT !.line = @ \o f.line] ELSE fs[i]]
    ELSE Append(fs, f)

AddFile(fs, f) ==
  IF \E i \in DOMAIN fs : fs[i].filename = f.filename
    THEN [i \in DOMAIN fs |-> IF fs[i].filename = f.filename
                                THEN [fs[i] EXCEPT !.func = FoldLeft(AddFunction, @, f.func)]
                                ELSE fs[i]]
    ELSE Append(fs, [f EXCEPT !.func = FoldLeft(AddFunction, <<>>, @)])

(* sort_func() and sort_line(). *)
sort_func(a, b) == a.first_line < b.first_line
sort_line(a, b) == a.fline < b.fline \/ (a.fline = b.fline /\ a.count > b.count)

sort_test_coverage(section) ==
  [i \in DOMAIN section |->
     [section[i] EXCEPT !.func = SortSeq([j \in DOMAIN @ |->
        [@[j] EXCEPT !.line = SortSeq(@, sort_line)]], sort_func)]]

(* The section of a process that has counted c. *)
Counters ==
  UNION {UNION {{<<i, j, k>> : k \in DOMAIN program[i].func[j].line} :
                j \in DOMAIN program[i].func} : i \in DOMAIN program}
Section(c) ==
  [i \in DOMAIN program |->
     [program[i] EXCEPT !.func = [j \in DOMAIN @ |->
        [@[j] EXCEPT !.line = [k \in DOMAIN @ |->
           [fline |-> @[k].fline, lline |-> @[k].lline, count |-> c[<<i, j, k>>]]]]]]]

Zero == [c \in Counters |-> 0]
Nothing == [ofs |-> 0, rest |-> <<>>]

-----------------------------------------------------------------------------
(* The text.  A number is right-aligned in its column of Width characters. *)
NL == "newline"
Width == 3
Digit == <<"0", "1", "2", "3", "4", "5", "6", "7", "8", "9">>
Value(d) == CHOOSE n \in 0 .. 9 : Digit[n + 1] = d

RECURSIVE Digits(_)
Digits(n) == IF n < 10 THEN <<Digit[n + 1]>> ELSE Append(Digits(n \div 10), Digit[(n % 10) + 1])

Blanks(n) == [i \in 1 .. n |-> " "]
Aligned(s, n) == Blanks(n - Len(s)) \o s

Column(mark, count) ==
  CASE mark = "-" -> Aligned(<<"-">>, Width)
    [] mark = "#" -> Aligned(<<"#", "#">>, Width)
    [] mark = ":" -> Aligned(Digits(count), Width)
    [] mark = "*" -> Append(Aligned(Digits(count), Width - 1), "*")

SourceLine(mark, count, line) ==
  Column(mark, count) \o <<":">> \o Digits(line) \o <<":", "source", NL>>
Heading(rest) == Column("-", 0) \o <<":", "0", ":">> \o rest \o <<NL>>

(* "%.02f%%": between 0.00% and 100.00% *)
Percent(bs) ==
  LET run == Len(SelectSeq(bs, LAMBDA b : b.count # 0))
  IN [i \in 1 .. (IF 10 * run < Len(bs) \/ run = 0 THEN 1
                  ELSE IF run < Len(bs) THEN 2 ELSE 3) |-> "%"]
Blocks(fns) == FlattenSeq([i \in DOMAIN fns |-> fns[i].line])

(* A number read from i on behind blanks, and the place after it; ok: one  *)
(* is there.  Numbers are unsigned, of Bits bits here, but "%u" and "%llu" *)
(* read a minus sign too, which a line has where "-" ended a buffer.       *)
Bits == 16
Number(str, i) ==
  LET start == Min({j \in i .. Len(str) : str[j] # " "} \union {Len(str) + 1})
      minus == start <= Len(str) /\ str[start] = "-"
      from == IF minus THEN start + 1 ELSE start
      to == Min({j \in from .. Len(str) : str[j] \notin Range(Digit)} \union {Len(str) + 1})
      n == FoldLeft(LAMBDA v, d : 10 * v + Value(d), 0, SubSeq(str, from, to - 1))
  IN [ok |-> from < to, next |-> to, value |-> (IF minus THEN -n ELSE n) % 2^Bits]

Colons(str) == {i \in DOMAIN str : str[i] = ":"}
LineOf(str) == IF Colons(str) = {} THEN [ok |-> FALSE, value |-> 0]
               ELSE Number(str, Min(Colons(str)) + 1)

(* sscanf(str, "%llu%c"). *)
CountOf(str) ==
  LET n == Number(str, 1)
  IN IF n.ok /\ n.next <= Len(str) THEN [ok |-> TRUE, count |-> n.value, mark |-> str[n.next]]
     ELSE [ok |-> FALSE, count |-> 0, mark |-> "-"]

(* The file that "0:File:" names, if it is in the line. *)
FileOf(str) ==
  LET at == {i \in 1 .. Len(str) - 3 : SubSeq(str, i, i + 3) = <<"0", ":", "File", ":">>}
      i == Min(at) + 4
  IN IF at = {} THEN "none" ELSE IF i < Len(str) /\ str[i + 1] = " " THEN str[i] ELSE "other"

-----------------------------------------------------------------------------
(* Reading: pos is the place of the next line, str the one read last.      *)
Garbage == <<>>

fgets(text, s) ==
  LET to == Min({i \in s.pos .. Len(text) : text[i] = NL} \union {Len(text)})
  IN [s EXCEPT !.pos = to + 1, !.str = SubSeq(text, s.pos, to)]

(* Read lines until one with a number from line on, if there is none to    *)
(* the end.                                                                *)
RECURSIVE ReadTo(_, _, _)
ReadTo(text, s, line) ==
  LET r == fgets(text, s)
      n == LineOf(r.str)
  IN IF s.curline >= line \/ s.pos > Len(text) THEN s
     ELSE ReadTo(text, [r EXCEPT !.curline = IF n.ok THEN n.value ELSE @], line)

MergeLine(text, s, b) ==
  LET r == ReadTo(text, s, b.fline)
      n == CountOf(r.str)
  IN [r EXCEPT !.next_zero = IF n.ok THEN n.mark = "*" ELSE @,
               !.done = Append(@, IF n.ok /\ ~s.next_zero
                                    THEN [b EXCEPT !.count = (@ + n.count) % 2^Bits] ELSE b)]

MergeFunction(text, s, f) ==
  LET r == FoldLeft(LAMBDA a, b : MergeLine(text, a, b),
                    [pos |-> s.pos, str |-> s.str, curline |-> 0,
                     next_zero |-> FALSE, done |-> <<>>], f.line)
  IN [pos |-> r.pos, str |-> r.str, done |-> Append(s.done, [f EXCEPT !.line = r.done])]

RECURSIVE ReadHead(_, _)
ReadHead(text, s) ==
  LET r == fgets(text, s)
  IN IF s.pos > Len(text) THEN s
     ELSE IF FileOf(r.str) # "none" THEN r ELSE ReadHead(text, r)

(* The functions of a file whose header is the next in the text; a file    *)
(* whose header is not ends the merging.                                   *)
MergeFile(text, s, f) ==
  LET head == ReadHead(text, s)
      r == FoldLeft(LAMBDA a, fn : MergeFunction(text, a, fn),
                    [pos |-> head.pos, str |-> head.str, done |-> <<>>], f.func)
  IN IF s.broken \/ FileOf(head.str) # f.filename
       THEN [s EXCEPT !.broken = TRUE, !.done = Append(@, f)]
       ELSE [s EXCEPT !.pos = r.pos, !.str = r.str, !.done = Append(@, [f EXCEPT !.func = r.done])]

First(text) == fgets(text, [pos |-> 1, str |-> Garbage])

merge_test_coverage(file, text) ==
  FoldLeft(LAMBDA a, f : MergeFile(text, a, f),
           [pos |-> First(text).pos, str |-> First(text).str,
            broken |-> FALSE, done |-> <<>>], file).done

(* The number behind the last colon of the first line; *pruns is one more. *)
Runs(text) ==
  LET n == Number(First(text).str, Max(Colons(First(text).str)) + 1)
  IN IF Colons(First(text).str) # {} /\ n.ok THEN n.value ELSE 0

-----------------------------------------------------------------------------
(* Writing: curline is the next line of the source.                        *)
Lines(s, upto, n, mark, count) ==
  LET last == IF upto <= n + 1 THEN upto ELSE n + 1
  IN IF s.curline >= last THEN s
     ELSE [curline |-> last,
           text |-> s.text \o FlattenSeq([i \in 1 .. last - s.curline |->
                                 SourceLine(mark, count, s.curline + i - 1)])]

(* The blocks that begin on one line: the largest count, the end of the    *)
(* last of them, and whether one of the others was never run.              *)
Group(fn, fline) ==
  LET bs == SelectSeq(fn.line, LAMBDA b : b.fline = fline)
      b == Last(bs)
      some == \E i \in 2 .. Len(bs) : bs[i].count = 0
      upto == IF b.fline = b.lline THEN b.lline + 1 ELSE b.lline
      count == Max({bs[i].count : i \in DOMAIN bs})
  IN [fline |-> fline, upto |-> upto, count |-> count,
      mark |-> IF count = 0 THEN "#" ELSE IF some THEN "*" ELSE ":"]

WriteGroup(s, g, n) ==
  Lines(Lines(s, g.fline, n, "-", 0), g.upto, n, g.mark, g.count)

WriteFunction(s, fn, n) ==
  LET heads == SelectSeq([i \in DOMAIN fn.line |-> i],
                         LAMBDA i : i = 1 \/ fn.line[i - 1].fline # fn.line[i].fline)
      begin == Lines(s, fn.first_line, n, "-", 0)
  IN FoldLeft(LAMBDA a, i : WriteGroup(a, Group(fn, fn.line[i].fline), n),
              [begin EXCEPT !.text = @ \o Heading(<<"Function", ":", "name">>
                                                   \o Percent(fn.line))], heads)

WriteFile(text, f) ==
  LET n == source[f.filename]
      body == FoldLeft(LAMBDA a, fn : WriteFunction(a, fn, n),
                       [curline |-> 1,
                        text |-> Heading(<<"File", ":", f.filename, " ">>
                                         \o Percent(Blocks(f.func)))], f.func)
  IN IF n = 0 THEN text ELSE text \o Lines(body, n + 1, n, "-", 0).text

Text(file, n) ==
  LET all == Percent(FlattenSeq([i \in DOMAIN file |-> Blocks(file[i].func)]))
  IN FoldLeft(WriteFile, Heading(<<"Runs", ":">> \o Digits(n))
                         \o Heading(<<"All", ":", "name">> \o all), file)

-----------------------------------------------------------------------------
(* __store_test_coverage(), called when the process ends. *)
Steps(p, to) == pc' = [pc EXCEPT ![p] = to]

open_tcov_file(p) ==
  /\ pc[p] = "run"
  /\ Steps(p, "lock")
  /\ fd' = [fd EXCEPT ![p] = link]
  /\ UNCHANGED <<world, counted, out, files, total>>


(* fcntl(F_SETLKW). *)
Lock(p) ==
  /\ pc[p] = "lock" /\ lock[fd[p]] = None
  /\ lock' = [lock EXCEPT ![fd[p]] = p]
  /\ Steps(p, "merge")
  /\ UNCHANGED <<world, fd, counted, out, link, disk, total>>

(* The counters are read with the lock held. *)
Merge(p) ==
  /\ pc[p] = "merge"
  /\ \E c \in [Counters -> Counts] :
       LET text == disk[fd[p]]
           file == sort_test_coverage(FoldLeft(AddFile, <<>>, Section(c)))
       IN /\ counted' = [counted EXCEPT ![p] = c]
          /\ out' = [out EXCEPT ![p] =
               [ofs |-> 0, rest |-> Text(merge_test_coverage(file, text), Runs(text) + 1)]]
  /\ Steps(p, "write")
  /\ UNCHANGED <<world, fd, files, total>>

(* The next buffer is written over what is there; nothing is cut off, and  *)
(* only fclose() writes what does not fill a buffer.                       *)
Write(p) ==
  /\ pc[p] = "write"
  /\ LET ofs == out[p].ofs
         rest == out[p].rest
         n == IF Len(rest) < Chunk THEN Len(rest) ELSE Chunk
         old == disk[fd[p]]
     IN /\ disk' = [disk EXCEPT ![fd[p]] =
                      SubSeq(old, 1, ofs) \o SubSeq(rest, 1, n) \o SubSeq(old, ofs + n + 1, Len(old))]
        /\ IF n < Len(rest)
             THEN /\ out' = [out EXCEPT ![p] = [ofs |-> ofs + n, rest |-> SubSeq(rest, n + 1, Len(rest))]]
                  /\ UNCHANGED <<pc, counted, total>>
             ELSE /\ out' = [out EXCEPT ![p] = Nothing]
                  /\ Steps(p, "close")
                  /\ total' = [total EXCEPT ![fd[p]] =
                       [@ EXCEPT !.runs = @ + 1, !.stored = @ + 1,
                                 !.sum = [c \in Counters |-> @[c] + counted[p][c]]]]
                  /\ counted' = [counted EXCEPT ![p] = Zero]
  /\ UNCHANGED <<world, fd, link, lock>>

Close(p) ==
  /\ pc[p] = "close"
  /\ lock' = [lock EXCEPT ![fd[p]] = None]
  /\ Steps(p, "done")
  /\ UNCHANGED <<world, fd, counted, out, link, disk, total>>

(* The system takes the lock back; the text is left as it is.              *)
Kill(p) ==
  /\ pc[p] \notin {"run", "done", "dead"}
  /\ Cardinality({q \in Process : pc[q] = "dead"}) < MaxKills
  /\ Steps(p, "dead")
  /\ lock' = [lock EXCEPT ![fd[p]] = IF @ = p THEN None ELSE @]
  /\ total' = IF out[p].ofs = 0 THEN total
              ELSE [total EXCEPT ![fd[p]] =
                      [@ EXCEPT !.torn = @ + 1, !.stored = 0, !.sum = Zero]]
  /\ counted' = [counted EXCEPT ![p] = Zero]
  /\ out' = [out EXCEPT ![p] = Nothing]
  /\ UNCHANGED <<world, fd, link, disk>>

(* tcc_tcov_add_file(), when the program is linked once more. *)
tcc_tcov_add_file ==
  /\ link < MaxLinks
  /\ link' = link + 1
  /\ UNCHANGED <<world, pc, fd, counted, out, disk, lock, total>>

Init ==
  /\ program \in Programs /\ source \in Sources
  /\ pc = [p \in Process |-> "run"]
  /\ fd = [p \in Process |-> 0]
  /\ counted = [p \in Process |-> Zero]
  /\ out = [p \in Process |-> Nothing]
  /\ link = 1
  /\ disk = [i \in 1 .. MaxLinks |-> <<>>]
  /\ lock = [i \in 1 .. MaxLinks |-> None]
  /\ total = [i \in 1 .. MaxLinks |-> [runs |-> 0, torn |-> 0, stored |-> 0, sum |-> Zero]]

Next ==
  \/ \E p \in Process : \/ open_tcov_file(p) \/ Lock(p) \/ Merge(p) \/ Write(p) \/ Close(p)
                       \/ Kill(p)
  \/ tcc_tcov_add_file

Spec == Init /\ [][Next]_vars

-----------------------------------------------------------------------------
(* The lines a block is shown at, and what a text says of a line. *)
Covers(b) == b.fline .. (IF b.lline > b.fline THEN b.lline - 1 ELSE b.fline)
At(c) == program[c[1]].func[c[2]].line[c[3]]
File(c) == program[c[1]].filename
RECURSIVE LinesOf(_)
LinesOf(text) ==
  LET r == First(text)
  IN IF text = <<>> THEN <<>> ELSE <<r.str>> \o LinesOf(SubSeq(text, r.pos, Len(text)))
Shown(ls, file, line) ==
  LET begin == Min({i \in DOMAIN ls : FileOf(ls[i]) = file})
  IN CountOf(ls[Min({i \in begin + 1 .. Len(ls) : LineOf(ls[i]).value = line})])

(* No block of a file, or of one before it, shares a line with another.    *)
Apart(file) == \A c, d \in Counters :
  File(c) = File(d) /\ c # d => Covers(At(c)) \intersect Covers(At(d)) = {}
Legible(file) ==
  LET upto == CHOOSE i \in DOMAIN program : program[i].filename = file
  IN \A i \in 1 .. upto : source[program[i].filename] > 0 /\ Apart(program[i].filename)
Settled(i) == disk[i] # <<>> /\ \A p \in Process : fd[p] = i => pc[p] # "write"


(* "merge with previous tcov file" (tcov.c:217): what a process has run    *)
(* is not shown as never run.                                              *)
Merged ==
  \A i \in 1 .. link : Settled(i) =>
    LET ls == LinesOf(disk[i])
    IN \A c \in Counters : total[i].sum[c] > 0 /\ source[File(c)] > 0 =>
         \A l \in Covers(At(c)) : Shown(ls, File(c), l).ok
=============================================================================
