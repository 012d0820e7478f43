-------------------------- MODULE DecodeProfiling --------------------------
(***************************************************************************)
(* The profiling log decoder src/tools/pnp/decode_profiling.py.  The log  *)
(* (tab) holds one line per function entry "e" or exit "x":               *)
(*                                                                         *)
(*     debug profiling 1 e 0x40002b7e 22                                   *)
(*                                                                         *)
(* The decoding loop (lines 53-74) runs one step per line:                 *)
(*                                                                         *)
(*   Enter  an "e" line: depth + 1, addr2line, append to out_data          *)
(*   Exit   an "x" line: the reversed search for the entry of the same     *)
(*          depth and address, its duration, depth - 1                     *)
(*   Skip   a line whose fourth field is neither "e" nor "x"               *)
(*   Abort  any exception in the loop (a blank or short line, a bad        *)
(*          timestamp): the bare except ends the loop and resets depth     *)
(*   EndOfLog                                                              *)
(*                                                                         *)
(* and Report is the printing loop (lines 76-82).  A line's timestamp is   *)
(* its position in the log (the device clock increases); what matters of   *)
(* the field is whether int() accepts it.  addr2line is a lookup in two    *)
(* symbol tables, the second one used when the first has no entry.         *)
(***************************************************************************)
EXTENDS Integers, Sequences, SequencesExt, FiniteSets

CONSTANTS
  Addrs,        \* the function addresses the log may name
  MaxLines,     \* the longest log
  SsblSymbols,  \* addr2line -f on ssbl_quark.elf: [Addrs -> Output]
  QuarkSymbols, \* addr2line -f on quark.elf
  Unresolved,   \* what addr2line -f prints for an unknown function ("??")
  NoAddr,       \* the address field of a line that has none
  NoDuration,   \* an out_data dict without a 'duration' key
  OO            \* the string "oo" the printing loop puts there

ASSUME MaxLines \in Nat
\* The two lines addr2line -f prints: the function, and file:line, which
\* is "??:0" (line = FALSE) when there is no line information, whether or
\* not the function is known.
Output == [func : STRING \cup {Unresolved}, line : BOOLEAN]

ASSUME SsblSymbols \in [Addrs -> Output]
ASSUME QuarkSymbols \in [Addrs -> Output]

\* A line of the log: its fourth field ev, its fifth field addr, and
\* whether int() accepts its sixth field.  "blank" stands for every line
\* split() gives fewer than four fields.
Line == [ev : {"e", "x"}, addr : Addrs, ts : {"ok", "bad"}]
          \cup [ev : {"other", "blank"}, addr : {NoAddr}, ts : {"ok"}]
WellFormed == {ln \in Line : ln.ev \in {"e", "x"} /\ ln.ts = "ok"}

\* The logs decoded: up to MaxLines well-formed lines, at most one of them
\* replaced by a malformed line.
Logs ==
  LET good == UNION {[1..n -> WellFormed] : n \in 0..MaxLines}
  IN good \cup UNION {{[l EXCEPT ![k] = m] : k \in DOMAIN l,
                                             m \in Line \ WellFormed} : l \in good}

VARIABLES
  tab,      \* the lines of profiling_file
  pos,      \* the line the for loop is at
  depth,
  outData,  \* out_data: [depth, addr, func, ts, duration] per entry line
  phase,    \* "decode", "print" or "done"
  printed   \* what the printing loop wrote: [indent, func, duration]

vars == <<tab, pos, depth, outData, phase, printed>>

\* addr2line -f on ssbl_quark.elf, and on quark.elf when the first output
\* holds "??:0"; the function is the first word of the output.
Addr2line(a) ==
  IF SsblSymbols[a].line THEN SsblSymbols[a].func ELSE QuarkSymbols[a].func

\* space(depth): the indentation, in units of two blanks.
Space(d) == IF d < 0 THEN 0 ELSE d

Init ==
  /\ tab \in Logs
  /\ pos = 1
  /\ depth = 0
  /\ outData = <<>>
  /\ phase = "decode"
  /\ printed = <<>>

Current == tab[pos]

Decoding == phase = "decode" /\ pos <= Len(tab)

Enter ==
  /\ Decoding
  /\ Current.ev = "e"
  /\ Current.ts = "ok"
  /\ depth' = depth + 1
  /\ outData' = Append(outData, [depth |-> depth + 1, addr |-> Current.addr,
                                 func |-> Addr2line(Current.addr), ts |-> pos,
                                 duration |-> NoDuration])
  /\ pos' = pos + 1
  /\ UNCHANGED <<tab, phase, printed>>

\* The entries the reversed loop of lines 67-71 would stop at.
Candidates == {k \in DOMAIN outData : outData[k].depth = depth
                                       /\ outData[k].addr = Current.addr}

\* Bug variant of Match: the loop run forwards, stopping at the oldest.
MatchOldest == Min(Candidates)

\* enumerate(reversed(out_data)) stops at the most recent candidate.
Match == Max(Candidates)

\* Bug variant of Duration: the subtraction the other way round.
DurationSwapped(k) == outData[k].ts - pos

\* int(elem[5]) - x_elem['ts']
Duration(k) == pos - outData[k].ts

\* An exit line; its timestamp is only parsed when an entry matches.
Exit ==
  /\ Decoding
  /\ Current.ev = "x"
  /\ Candidates = {} \/ Current.ts = "ok"
  /\ outData' = IF Candidates = {} THEN outData
                ELSE [outData EXCEPT ![Match].duration = Duration(Match)]
  /\ depth' = depth - 1
  /\ pos' = pos + 1
  /\ UNCHANGED <<tab, phase, printed>>

Skip ==
  /\ Decoding
  /\ Current.ev = "other"
  /\ pos' = pos + 1
  /\ UNCHANGED <<tab, depth, outData, phase, printed>>

\* IndexError on a blank line, ValueError on a timestamp int() refuses:
\* the except clause outside the for loop drops the rest of the log.
Abort ==
  /\ Decoding
  /\ \/ Current.ev = "blank"
     \/ Current.ev = "e" /\ Current.ts = "bad"
     \/ Current.ev = "x" /\ Current.ts = "bad" /\ Candidates # {}
  /\ depth' = 0
  /\ phase' = "print"
  /\ UNCHANGED <<tab, pos, outData, printed>>

EndOfLog ==
  /\ phase = "decode"
  /\ pos > Len(tab)
  /\ phase' = "print"
  /\ UNCHANGED <<tab, pos, depth, outData, printed>>

\* The printing loop: an entry without a duration gets "oo".
Report ==
  /\ phase = "print"
  /\ outData' = [k \in DOMAIN outData |->
                   IF outData[k].duration = NoDuration
                     THEN [outData[k] EXCEPT !.duration = OO]
                     ELSE outData[k]]
  /\ printed' = [k \in DOMAIN outData |->
                   [indent |-> Space(outData[k].depth), func |-> outData'[k].func,
                    duration |-> outData'[k].duration]]
  /\ phase' = "done"
  /\ UNCHANGED <<tab, pos, depth>>

Next == Enter \/ Exit \/ Skip \/ Abort \/ EndOfLog \/ Report

Spec == Init /\ [][Next]_vars

-----------------------------------------------------------------------------
(* Properties                                                              *)

\* The log is a capture of a real run: it may start inside calls and stop
\* inside calls, but an exit that closes an entry of the log names the
\* innermost open one.
RECURSIVE NestedFrom(_, _, _)
NestedFrom(l, k, open) ==
  IF k > Len(l) THEN TRUE
  ELSE CASE l[k].ev = "e" -> NestedFrom(l, k + 1, Append(open, l[k].addr))
         [] l[k].ev = "x" /\ open # <<>> ->
              l[k].addr = Last(open) /\ NestedFrom(l, k + 1, Front(open))
         [] OTHER -> NestedFrom(l, k + 1, open)

Captured(l) == NestedFrom(l, 1, <<>>)

\* The reference decoding: brackets paired with an explicit stack of open
\* calls; an exit whose entry precedes the capture is ignored, and a blank
\* line or a timestamp that has to be parsed and is not a number ends it.
RECURSIVE CallTree(_, _, _, _)
CallTree(l, k, open, calls) ==
  IF k > Len(l) THEN calls
  ELSE LET ln == l[k] IN
    CASE ln.ev = "other" -> CallTree(l, k + 1, open, calls)
      [] ln.ev = "e" /\ ln.ts = "ok" ->
           CallTree(l, k + 1, Append(open, Len(calls) + 1),
                    Append(calls, [addr |-> ln.addr, start |-> k, duration |-> OO]))
      [] ln.ev = "x" /\ open = <<>> -> CallTree(l, k + 1, open, calls)
      [] ln.ev = "x" /\ ln.ts = "ok" ->
           LET top == Last(open)
           IN CallTree(l, k + 1, Front(open),
                       [calls EXCEPT ![top].duration = k - calls[top].start])
      [] OTHER -> calls

TypeOK ==
  /\ tab \in Seq(Line)
  /\ pos \in 1..Len(tab) + 1
  /\ depth \in -MaxLines..MaxLines
  /\ phase \in {"decode", "print", "done"}
  /\ \A k \in DOMAIN outData :
       /\ outData[k].depth \in -MaxLines..MaxLines
       /\ outData[k].addr \in Addrs
       /\ outData[k].ts \in 1..Len(tab)
       /\ outData[k].duration \in {NoDuration, OO} \/ outData[k].duration \in Nat
  /\ \A k \in DOMAIN printed : printed[k].indent \in Nat

\* On any capture of a run, the decoder prints one line per entry line
\* before the first line that makes the loop raise, with its function and
\* the time to its own exit line, or "oo" when that exit is not in the
\* capture: the depth counter and the reversed search of lines 56-72 pair
\* every exit with its own entry even when the capture starts inside
\* calls (depth below zero) or inside a recursion.
DecodeMatchesCallTree ==
  phase = "done" /\ Captured(tab) =>
    LET calls == CallTree(tab, 1, <<>>, <<>>)
    IN /\ Len(printed) = Len(calls)
       /\ \A k \in DOMAIN calls :
            /\ printed[k].func = Addr2line(calls[k].addr)
            /\ printed[k].duration = calls[k].duration

\* A call the decoder has closed keeps its duration: an exit line pairs
\* with an entry that has none yet.  Lines 67-71 search by depth and
\* address only, so after the serial capture loses a line (an entry, say)
\* the depth counter is one off and a later exit of the same function can
\* stop at a call that was closed before the loss, overwriting its time.
DurationsFinal ==
  [][\A k \in DOMAIN outData :
       outData[k].duration \notin {NoDuration, OO} =>
         outData'[k].duration = outData[k].duration]_vars

=============================================================================
