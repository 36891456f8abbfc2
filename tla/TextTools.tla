------------------------------- MODULE TextTools -------------------------------
(***************************************************************************)
(* Programs that read a text to its end: grep and wc of xv6, my-look and   *)
(* wordle of P1, the word counts over sequential_mapreduce.c.  A read of   *)
(* a pipe or of the console may be short.  And what they and the kernel    *)
(* call: string.c, ulib.c, printf.c and cprintf.                           *)
(***************************************************************************)
EXTENDS Integers, FiniteSets, SequencesExt

CONSTANTS
  Jobs,             \* a sequence of sets of [tool, args, text]
  GREPBUF, FGETS, FGETSIN,  \* sizes of buffers
  FIVE,             \* letters of a word of wordle
  WORD              \* 2^w for an int

VARIABLES job, left, buf, out,
          state     \* what the tool has in other variables
vars == <<job, left, buf, out, state>>

NL == "\n"
Ascii == <<NL, " ", "%", "'", ".", "A", "a", "b", "d">>
Code(c) == CHOOSE i \in DOMAIN Ascii : Ascii[i] = c
Is(tool) == job.tool = tool /\ state.pc = "run"
Ends == state' = [state EXCEPT !.pc = "done"]
Init ==
  /\ \E k \in DOMAIN Jobs : job \in Jobs[k]
  /\ left = job.text /\ buf = <<>> /\ out = <<>>
  /\ state = [pc |-> IF job.tool = "look" THEN "options" ELSE "run", opts |-> job.args,
              fFlag |-> FALSE, whole |-> TRUE, inword |-> FALSE, round |-> 1]

\* What is before, and after, the first k characters.
Take(s, k) == SubSeq(s, 1, k)
Skip(s, k) == SubSeq(s, k + 1, Len(s))
NLs(s) == {i \in DOMAIN s : s[i] = NL}
\* The ends of s that follow a newline, without theirs: its complete lines.
Begin(s, i) == Max({0} \cup {j \in NLs(s) : j < i}) + 1
CompleteLines(s) ==
  LET ends == SetToSortSeq(NLs(s), <) IN
  [k \in DOMAIN ends |-> SubSeq(s, Begin(s, ends[k]), ends[k] - 1)]
Rest(s) == Skip(s, Max({0} \cup NLs(s)))
\* What read may return of the n bytes asked for.
Reads(n) == IF n = 0 \/ left = <<>> THEN {0} ELSE 1 .. Min({n, Len(left)})
\* fgets: through the newline, n - 1 characters at most.
Piece(n) == Take(left, Min({n - 1, Len(left)} \cup NLs(left)))

-----------------------------------------------------------------------------
(* grep                                                                    *)

RECURSIVE matchhere(_, _), matchstar(_, _, _)
matchhere(re, text) ==
  \/ re = <<>>
  \/ Len(re) >= 2 /\ re[2] = "*" /\ matchstar(re[1], Skip(re, 2), text)
  \/ re = <<"$">> /\ text = <<>>
  \/ /\ re # <<>> /\ ~(Len(re) >= 2 /\ re[2] = "*") /\ re # <<"$">>
     /\ text # <<>> /\ re[1] \in {".", text[1]}
     /\ matchhere(Tail(re), Tail(text))
matchstar(c, re, text) ==
  \/ matchhere(re, text)
  \/ text # <<>> /\ c \in {".", text[1]} /\ matchstar(c, re, Tail(text))
match(re, text) ==
  IF re # <<>> /\ re[1] = "^" THEN matchhere(Tail(re), text)
  ELSE \E k \in 0 .. Len(text) : matchhere(re, Skip(text, k))

Kept(b) == IF NLs(b) = {} THEN <<>> ELSE Rest(b)
Grep ==
  /\ Is("grep") /\ UNCHANGED job
  /\ \E k \in Reads(GREPBUF - 1 - Len(buf)) :
       LET b == buf \o Take(left, k) IN
       IF k = 0 THEN Ends /\ UNCHANGED <<left, buf, out>>
       ELSE /\ out' = out \o SelectSeq(CompleteLines(b), LAMBDA l : match(job.args, l))
            /\ buf' = Kept(b) /\ left' = Skip(left, k)
            /\ state' = [state EXCEPT !.whole = @ /\ NLs(b) # {}]

-----------------------------------------------------------------------------
(* wc                                                                      *)

Blank(c) == c \in {" ", NL}
WcChar(acc, c) ==
  [l |-> IF c = NL THEN acc.l + 1 ELSE acc.l, c |-> acc.c + 1, inword |-> ~Blank(c),
   w |-> IF ~Blank(c) /\ ~acc.inword THEN acc.w + 1 ELSE acc.w]
Wc ==
  /\ Is("wc") /\ UNCHANGED <<job, buf>>
  /\ \E k \in Reads(GREPBUF) :
       IF k = 0 THEN Ends /\ UNCHANGED <<left, out>>
       ELSE LET start == IF out = <<>> THEN [l |-> 0, w |-> 0, c |-> 0, inword |-> FALSE] ELSE out[1]
            IN out' = <<FoldLeft(WcChar, start, Take(left, k))>>
               /\ left' = Skip(left, k) /\ UNCHANGED state

-----------------------------------------------------------------------------
(* my-look and wordle                                                      *)

Alnum(c) == c \notin {NL, " ", "'", "."}
filter(s) == SelectSeq(s, Alnum)
Lower(s) == [i \in DOMAIN s |-> IF s[i] = "A" THEN "a" ELSE s[i]]
HasPrefix(s, p) == Len(p) <= Len(s) /\ Lower(Take(s, Len(p))) = Lower(p)

\* An argument is an option or a word; getopt puts the options first.
Option(a) == a.opt # "none"
Words == SelectSeq(job.args, LAMBDA a : ~Option(a))
LookOption ==
  /\ state.pc = "options" /\ UNCHANGED <<job, left, buf>>
  /\ LET opts == SelectSeq(state.opts, Option) IN
     IF opts = <<>>
     THEN /\ state' = [state EXCEPT !.opts = <<>>,
            !.pc = IF job.args = <<>> THEN "invalid" ELSE IF Words = <<>> THEN "fault" ELSE "run"]
          /\ UNCHANGED out
     ELSE LET o == Head(opts).opt IN
          /\ state' = [state EXCEPT !.opts = Tail(opts), !.fFlag = @ \/ o = "f",
               !.pc = CASE o \in {"V", "h"} -> "done" [] o = "f" -> "options" [] OTHER -> "invalid"]
          /\ out' = IF o \in {"V", "h"} THEN <<o>> ELSE out
Compare(p, s) == HasPrefix(filter(s), filter(p))
Look ==
  LET line == Piece(IF state.fFlag THEN FGETS ELSE FGETSIN) IN
  /\ Is("look") /\ UNCHANGED <<job, buf>>
  /\ IF left = <<>> THEN Ends /\ UNCHANGED <<left, out>>
     ELSE /\ out' = IF Compare(Words[1].word, line) THEN Append(out, line) ELSE out
          /\ left' = Skip(left, Len(line)) /\ UNCHANGED state

\* ptr is not set when there are no letters to look for.
Wordle ==
  LET line == Piece(FGETS) IN
  /\ Is("wordle") /\ UNCHANGED <<job, buf>>
  /\ IF left = <<>> THEN Ends /\ UNCHANGED <<left, out>>
     ELSE /\ left' = Skip(left, Len(line)) /\ UNCHANGED state
          /\ \E unset \in (IF job.args = <<>> THEN BOOLEAN ELSE {FALSE}) :
               out' = IF Len(line) - 1 = FIVE /\ ~unset /\ ToSet(job.args) \cap ToSet(line) = {}
                      THEN Append(out, line) ELSE out

-----------------------------------------------------------------------------
(* The counts of words over the sequential MapReduce                       *)

Separators == {" ", ".", NL}
\* What strsep cuts a line into.
Tokens(s) ==
  LET cuts == SetToSortSeq({0, Len(s) + 1} \cup {i \in DOMAIN s : s[i] \in Separators}, <) IN
  [k \in 1 .. Len(cuts) - 1 |-> SubSeq(s, cuts[k] + 1, cuts[k + 1] - 1)]
\* main.c and hashmap_test.c give a line up at its first empty token.
UpToEmpty(ts) == IF <<>> \in ToSet(ts) THEN Take(ts, SelectInSeq(ts, LAMBDA t : t = <<>>) - 1) ELSE ts
Emits(s) == IF job.args = <<"all">> THEN Tokens(s) ELSE UpToEmpty(Tokens(s))
strcmp(s, t) ==
  LET n == Min({Len(s), Len(t)})
      differ == {i \in 1 .. n : s[i] # t[i]}
  IN IF differ = {} THEN Len(s) - Len(t) ELSE LET i == Min(differ) IN Code(s[i]) - Code(t[i])
InOrder(ks) == SortSeq(ks, LAMBDA s, t : strcmp(s, t) < 0)

\* buf has the pairs, kvl; each value is "1".
MapLine ==
  LET line == Piece(Len(left) + 1) IN
  /\ Is("count") /\ left # <<>> /\ UNCHANGED <<job, out, state>>
  /\ buf' = buf \o Emits(line) /\ left' = Skip(left, Len(line))
\* The pairs are sorted after the last line, before the first key.
SortPairs ==
  /\ Is("count") /\ left = <<>>
  /\ buf' = InOrder(buf) /\ state' = [state EXCEPT !.pc = "reduce"] /\ UNCHANGED <<job, left, out>>
\* The reducer of the key at kvl_counter calls get_func until that has another.
Same(ks) == Max({i \in DOMAIN ks : \A j \in 1 .. i : ks[j] = ks[1]})
ReduceKey ==
  LET n == Same(buf) IN
  /\ state.pc = "reduce" /\ buf # <<>>
  /\ out' = Append(out, [key |-> buf[1], count |-> n])
  /\ buf' = Skip(buf, n) /\ UNCHANGED <<job, left, state>>
Counted == state.pc = "reduce" /\ buf = <<>>
\* wordcount_multi.c: MR_Run again, and another file for the output.
NextRound ==
  /\ Counted /\ state.round < 2
  /\ left' = job.text /\ out' = <<>> /\ UNCHANGED <<job, buf>>
  /\ state' = [state EXCEPT !.pc = "run", !.round = @ + 1]

-----------------------------------------------------------------------------
(* Functions on strings and numbers                                        *)

\* memmove in string.c goes downwards when that is needed; in ulib.c never.
Moved(mem, d, s, order) ==
  FoldLeft(LAMBDA m, i : [m EXCEPT ![d + i] = m[s + i]], mem, order)
Up(n) == [i \in 1 .. n |-> i - 1]
memmove(mem, d, s, n) == Moved(mem, d, s, IF s < d /\ s + n > d THEN Reverse(Up(n)) ELSE Up(n))
umemmove(mem, d, s, n) == Moved(mem, d, s, Up(n))

\* t has its NUL, the last n bytes are to come.
RECURSIVE CopyString(_, _, _, _)
CopyString(s, t, i, n) ==
  IF n <= 0 THEN [mem |-> s, at |-> i, n |-> n - 1]
  ELSE LET m == [s EXCEPT ![i] = t[i]] IN
       IF t[i] = 0 THEN [mem |-> m, at |-> i + 1, n |-> n - 1] ELSE CopyString(m, t, i + 1, n - 1)
strncpy(s, t, n) ==
  LET c == CopyString(s, t, 1, n) IN
  [i \in DOMAIN s |-> IF i >= c.at /\ i < c.at + c.n THEN 0 ELSE c.mem[i]]
safestrcpy(s, t, n) ==
  IF n <= 0 THEN s
  ELSE LET c == CopyString(s, t, 1, n - 1)
       IN [c.mem EXCEPT ![c.at] = 0]

Digits == <<"0", "1", "2", "3", "4", "5", "6", "7", "8", "9", "A", "B", "C", "D", "E", "F">>
RECURSIVE DigitsOf(_, _)
DigitsOf(x, base) ==
  (IF x >= base THEN DigitsOf(x \div base, base) ELSE <<>>) \o <<Digits[(x % base) + 1]>>
\* xx is the unsigned value of an int.
printint(xx, base, sgn) ==
  IF sgn /\ xx >= WORD \div 2 THEN <<"-">> \o DigitsOf((WORD - xx) % WORD, base) ELSE DigitsOf(xx, base)
Digit(c) == SelectInSeq(Digits, LAMBDA d : d = c) - 1
\* The digits that s begins with; n wraps.
atoi(s) ==
  LET k == Max({i \in 0 .. Len(s) : \A j \in 1 .. i : Digit(s[j]) \in 0 .. 9}) IN
  FoldLeft(LAMBDA n, c : (n * 10 + Digit(c)) % WORD, 0, Take(s, k))

\* An argument is a number, and a string where the format wants one.
NoString == <<"NULL">>
Text(a) == IF a.str = NoString THEN <<"(null)">> ELSE a.str
Conversion(c, a, known) ==
  CASE c = "d" -> printint(a.num, 10, TRUE)
    [] c \in {"x", "p"} -> printint(a.num, 16, FALSE)
    [] c = "s" -> Text(a)
    [] c = "c" /\ c \in known -> <<Text(a)[1]>>
    [] c = "%" -> <<"%">>
    [] OTHER -> <<"%", c>>
User == {"d", "x", "p", "s", "c"}
Kernel == User \ {"c"}
FormatChar(acc, c, args, known) ==
  IF acc.lead
  THEN [lead |-> FALSE, ap |-> IF c \in known THEN acc.ap + 1 ELSE acc.ap,
        put |-> acc.put \o Conversion(c, args[acc.ap], known)]
  ELSE IF c = "%" THEN [acc EXCEPT !.lead = TRUE] ELSE [acc EXCEPT !.put = Append(@, c)]
printf(fmt, args, known) ==
  FoldLeft(LAMBDA acc, c : FormatChar(acc, c, args, known),
           [lead |-> FALSE, ap |-> 1, put |-> <<>>], fmt).put

Call ==
  LET a == job.args IN
  /\ state.pc = "run" /\ Ends /\ UNCHANGED <<job, left, buf>>
  /\ \/ job.tool = "memmove" /\ out' = memmove(a.mem, a.d, a.s, a.n)
     \/ job.tool = "umemmove" /\ out' = umemmove(a.mem, a.d, a.s, a.n)
     \/ job.tool = "strncpy" /\ out' = strncpy(a.mem, a.t, a.n)
     \/ job.tool = "safestrcpy" /\ out' = safestrcpy(a.mem, a.t, a.n)
     \/ job.tool = "printint" /\ out' = printint(a.xx, a.base, a.sgn)
     \/ job.tool = "printf" /\ out' = printf(a.fmt, a.list, User)
     \/ job.tool = "cprintf" /\ out' = printf(a.fmt, a.list, Kernel)

Next ==
  \/ Grep \/ Wc \/ LookOption \/ Look \/ Wordle
  \/ MapLine \/ SortPairs \/ ReduceKey \/ NextRound \/ Call
Spec == Init /\ [][Next]_vars

-----------------------------------------------------------------------------
(* Properties                                                              *)

Done(tool) == job.tool = tool /\ state.pc = "done"

\* The language of a pattern: it is a sequence of characters, some with a star,
\* and a text is cut into as many parts.
Items(re) ==
  LET starred(i) == i < Len(re) /\ re[i + 1] = "*"
      first[i \in 1 .. Len(re)] ==
        i = 1 \/ (first[i - 1] /\ ~starred(i - 1)) \/ (i > 2 /\ first[i - 2] /\ starred(i - 2))
      start == SetToSortSeq({i \in DOMAIN re : first[i]}, <)
  IN [k \in DOMAIN start |-> [c |-> re[start[k]], star |-> starred(start[k])]]
Fits(item, s) ==
  /\ item.star \/ Len(s) = 1
  /\ \A i \in DOMAIN s : item.c \in {".", s[i]}
InLanguage(re, text) ==
  LET anchored == re # <<>> /\ re[1] = "^"
      body == IF anchored THEN Tail(re) ELSE re
      all == Items(body)
      toEnd == all # <<>> /\ all[Len(all)] = [c |-> "$", star |-> FALSE]
      items == IF toEnd THEN Front(all) ELSE all
      n == Len(items)
  IN \E cut \in [0 .. n -> 0 .. Len(text)] :
       /\ anchored => cut[0] = 0
       /\ toEnd => cut[n] = Len(text)
       /\ \A k \in 1 .. n : cut[k - 1] <= cut[k]
                             /\ Fits(items[k], SubSeq(text, cut[k - 1] + 1, cut[k]))

\* grep prints the lines that are in the language of the pattern, in order,
\* however the text comes in pieces (grep.c:20-36), if no piece that filled up
\* the buffer was without a newline; the matcher is that of its comment.
GrepPrints ==
  Done("grep") /\ state.whole =>
    left = <<>> /\ out = SelectSeq(CompleteLines(job.text), LAMBDA l : InLanguage(job.args, l))
\* wc counts what its manual says, whatever the reads (wc.c:17-31).
WcCounts ==
  Done("wc") /\ job.text # <<>> =>
    LET t == job.text
        starts == {i \in DOMAIN t : ~Blank(t[i]) /\ (i = 1 \/ Blank(t[i - 1]))}
    IN out[1].l = Cardinality(NLs(t)) /\ out[1].c = Len(t) /\ out[1].w = Cardinality(starts)
\* Lines that fit the buffer, in pieces that end with them.
Lines(t) == LET ls == CompleteLines(t) IN
  [k \in DOMAIN ls |-> Append(ls[k], NL)] \o (IF Rest(t) = <<>> THEN <<>> ELSE <<Rest(t)>>)
Short(t, n) == \A k \in DOMAIN Lines(t) : Len(Lines(t)[k]) < n
\* my-look prints the lines that begin with the word, wordle those of five
\* letters, none of them forbidden; of options only the first of -V and -h
\* counts (my-look.c:74-113, wordle.c:41-52).
LookPrints ==
  /\ Done("look") /\ (\A i \in DOMAIN job.args : job.args[i].opt \notin {"V", "h"})
       /\ Short(job.text, IF state.fFlag THEN FGETS ELSE FGETSIN) =>
         out = SelectSeq(Lines(job.text), LAMBDA l : HasPrefix(filter(l), filter(Words[1].word)))
  /\ Done("wordle") /\ Short(job.text, FGETS) /\ job.args # <<>> /\ Rest(job.text) = <<>> =>
       out = SelectSeq(Lines(job.text), LAMBDA l :
               Len(l) = FIVE + 1 /\ \A i \in 1 .. FIVE : \A x \in ToSet(job.args) : l[i] # x)
\* Each word is counted once, by a reducer that gets all of its values, in each
\* round (MR_Run and get_func, sequential_mapreduce.c:33-43, 73-88).
CountsWords ==
  Counted =>
    LET ends(i) == i = Len(job.text) + 1 \/ job.text[i] \in Separators
        words == {s \in (0 .. Len(job.text)) \X (1 .. Len(job.text) + 1) :
                    /\ s[1] < s[2] /\ (s[1] = 0 \/ ends(s[1])) /\ ends(s[2])
                    /\ \A i \in s[1] + 1 .. s[2] - 1 : ~ends(i)}
        word(s) == SubSeq(job.text, s[1] + 1, s[2] - 1)
        cutOff(s) == \E e \in words : /\ word(e) = <<>> /\ e[2] <= s[1]
                                      /\ e[1] >= Begin(job.text, s[2]) - 1
        seen == {s \in words : word(s) # <<>> /\ (job.args = <<"all">> \/ ~cutOff(s))}
    IN /\ \A i, j \in DOMAIN out : i # j => out[i].key # out[j].key
       /\ {<<o.key, o.count>> : o \in {o \in ToSet(out) : o.key # <<>>}}
            = {<<word(s), Cardinality({r \in seen : word(r) = word(s)})>> : s \in seen}
\* Value of a number as it is written.
Value(s, base) == FoldLeft(LAMBDA n, c : n * base + Digit(c), 0, s)
\* memmove moves also where the areas overlap, that of ulib.c when it moves down,
\* as grep does; strncpy pads, safestrcpy ends the string; a number reads as
\* it was printed, also the least one (string.c, ulib.c, printf.c).
CallsRight ==
  LET a == job.args IN
  /\ Done("memmove") \/ (Done("umemmove") /\ (a.d <= a.s \/ a.s + a.n <= a.d)) =>
       \A x \in DOMAIN out : out[x] = IF x - a.d \in 0 .. a.n - 1 THEN a.mem[a.s + x - a.d]
                                       ELSE a.mem[x]
  /\ Done("strncpy") =>
       \A x \in DOMAIN out : out[x] = IF x > a.n THEN a.mem[x] ELSE IF x < Len(a.t) THEN a.t[x] ELSE 0
  /\ Done("safestrcpy") /\ a.n > 0 =>
       LET k == Min({a.n, Len(a.t)}) IN
       Take(out, k) = Append(Take(a.t, k - 1), 0) /\ \A x \in a.n + 1 .. Len(out) : out[x] = a.mem[x]
  /\ Done("printint") =>
       LET signed == a.sgn /\ a.xx >= WORD \div 2 IN
       /\ IF signed THEN out[1] = "-" /\ Value(Tail(out), a.base) = WORD - a.xx
          ELSE Value(out, a.base) = a.xx
       /\ signed \/ a.base # 10 \/ atoi(out) = a.xx
  /\ Done("printf") \/ Done("cprintf") =>
       LET f == a.fmt
           known == IF job.tool = "printf" THEN User ELSE Kernel
           lead[i \in DOMAIN f] == f[i] = "%" /\ (i = 1 \/ ~lead[i - 1])
           after(i) == i > 1 /\ lead[i - 1]
           nth(i) == Cardinality({j \in 1 .. i : after(j) /\ f[j] \in known})
           puts(i) == IF after(i) THEN Conversion(f[i], a.list[Max({nth(i), 1})], known)
                      ELSE IF lead[i] THEN <<>> ELSE <<f[i]>>
       IN out = FlattenSeq([i \in DOMAIN f |-> puts(i)])

TextsRight == GrepPrints /\ WcCounts /\ LookPrints /\ CountsWords /\ CallsRight
=============================================================================
