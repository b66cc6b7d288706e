---------------------------- MODULE EditDistance ----------------------------
(***************************************************************************)
(* How Google Test shows in which lines two strings differ: the edits from *)
(* the one to the other, and the unified diff made of them.                *)
(***************************************************************************)
EXTENDS Integers, FiniteSets, SequencesExt

kMatch == "match"
kAdd == "add"
kRemove == "remove"
kReplace == "replace"

-----------------------------------------------------------------------------
(* CalculateOptimalEdits. *)

\* Costs are counted in units of 1/100000: an edit is 1, a replacement is a
\* little more expensive.  The sums of doubles in the code are ordered alike.
Edit == 100000
Replacement == 100001

\* Bug: lines match wherever the diagonal is the cheapest way.
MatchAnything(l, r, same, diagonal, add, remove) ==
  CASE r = 0                         -> [cost |-> l * Edit, move |-> kRemove]
    [] l = 0 /\ r > 0                -> [cost |-> r * Edit, move |-> kAdd]
    [] OTHER                         -> [cost |-> diagonal, move |-> kMatch]

\* The entry of the tables costs and best_move for l lines on the left and r
\* on the right, from the costs of its neighbours.
BestMove(l, r, same, diagonal, add, remove) ==
  CASE r = 0                         -> [cost |-> l * Edit, move |-> kRemove]
    [] l = 0 /\ r > 0                -> [cost |-> r * Edit, move |-> kAdd]
    [] l > 0 /\ r > 0 /\ same        -> [cost |-> diagonal, move |-> kMatch]
    [] l > 0 /\ r > 0 /\ ~same /\ add < remove /\ add < diagonal
         -> [cost |-> add + Edit, move |-> kAdd]
    [] l > 0 /\ r > 0 /\ ~same /\ remove < add /\ remove < diagonal
         -> [cost |-> remove + Edit, move |-> kRemove]
    [] OTHER -> [cost |-> diagonal + Replacement, move |-> kReplace]

\* The rows of the tables, for so many lines on the left.
Tables(left, right) ==
  LET R == 0 .. Len(right)
      rows[l \in 0 .. Len(left)] ==
        LET above == IF l = 0 THEN <<>> ELSE rows[l - 1]
            row[r \in R] ==
              IF l = 0 \/ r = 0 THEN BestMove(l, r, FALSE, 0, 0, 0)
              ELSE BestMove(l, r, left[l] = right[r], above[r - 1].cost,
                            row[r - 1].cost, above[r].cost)
        IN  [r \in R |-> row[r]]
  IN  rows

\* Where the path through best_move, which the code walks backwards, comes from.
CameFrom(at, move) ==
  <<IF move = kAdd THEN at[1] ELSE at[1] - 1, IF move = kRemove THEN at[2] ELSE at[2] - 1>>
CalculateOptimalEdits(left, right) ==
  LET tables == Tables(left, right)
      path[at \in (0 .. Len(left)) \X (0 .. Len(right))] ==
        IF at = <<0, 0>> THEN <<>>
        ELSE LET move == tables[at[1]][at[2]].move
             IN  Append(path[CameFrom(at, move)], move)
  IN  path[<<Len(left), Len(right)>>]

-----------------------------------------------------------------------------
(* CreateUnifiedDiff. *)

\* l_i and r_i when the edits in front of e are done.
LeftDone(edits, e)  == Cardinality({k \in 1 .. e - 1 : edits[k] # kAdd})
RightDone(edits, e) == Cardinality({k \in 1 .. e - 1 : edits[k] # kRemove})

\* The first edit at e or behind it that is not a match.
NextEdit(edits, e) ==
  LET later == {k \in e .. Len(edits) : edits[k] # kMatch}
  IN  IF later = {} THEN Len(edits) + 1
      ELSE CHOOSE k \in later : \A j \in later : k <= j

\* Bug: hunks are joined however far they are apart.
EndsAtTheEnd(edits, from, k, context) ==
  NextEdit(edits, k) > Len(edits)

\* Whether the hunk that begins with the edit at from ends in front of k:
\* there is enough context behind it, and no other edit is close.
EndsBefore(edits, from, k, context) ==
  /\ k - from >= context /\ \A j \in k - context .. k - 1 : edits[j] = kMatch
  /\ \/ NextEdit(edits, k) > Len(edits)
     \/ NextEdit(edits, k) - k >= context

HunkEnd(edits, from, context) ==
  LET ends == {k \in from .. Len(edits) : EndsBefore(edits, from, k, context)}
  IN  IF ends = {} THEN Len(edits) + 1
      ELSE CHOOSE k \in ends : \A j \in ends : k <= j

FlushEdits(h) ==
  [lines |-> h.lines \o h.removes \o h.adds, removes |-> <<>>, adds |-> <<>>]

\* Removed lines are held back until a common one comes, and added lines until
\* the removed ones are there.
PushLine(h, mark, line) ==
  CASE mark = " " -> [FlushEdits(h) EXCEPT !.lines = Append(@, <<" ", line>>)]
    [] mark = "-" -> [h EXCEPT !.removes = Append(@, <<"-", line>>)]
    [] mark = "+" -> [h EXCEPT !.adds = Append(@, <<"+", line>>)]

\* The lines of the edit at k.
PushEdit(h, left, right, edits, k) ==
  LET l == LeftDone(edits, k) + 1
      r == RightDone(edits, k) + 1
  IN  CASE edits[k] = kMatch   -> PushLine(h, " ", left[l])
        [] edits[k] = kRemove  -> PushLine(h, "-", left[l])
        [] edits[k] = kAdd     -> PushLine(h, "+", right[r])
        [] edits[k] = kReplace -> PushLine(PushLine(h, "-", left[l]),
                                           "+", right[r])

\* The hunk of the edits from .. end - 1, and as much context in front of it
\* as there is.
Hunk(left, right, edits, from, end, context) ==
  LET l_i == LeftDone(edits, from)
      prefix == IF l_i < context THEN l_i ELSE context
      empty == [lines |-> <<>>, removes |-> <<>>, adds |-> <<>>]
      pushed[k \in from - prefix - 1 .. end - 1] ==
        CASE k = from - prefix - 1 -> empty
          [] k \in from - prefix .. from - 1
               -> PushLine(pushed[k - 1], " ", left[l_i - (from - 1 - k)])
          [] OTHER -> PushEdit(pushed[k - 1], left, right, edits, k)
  IN  [left_start |-> l_i - prefix + 1,
       right_start |-> RightDone(edits, from) - prefix + 1,
       lines |-> FlushEdits(pushed[end - 1]).lines]

has_edits(hunk) == \E k \in DOMAIN hunk.lines : hunk.lines[k][1] # " "

\* The hunks, until one without an edit is met.
CreateUnifiedDiff(left, right, context) ==
  LET edits == CalculateOptimalEdits(left, right)
      hunks[e \in 1 .. Len(edits) + 1] ==
        LET from == NextEdit(edits, e)
            end  == HunkEnd(edits, from, context)
            hunk == Hunk(left, right, edits, from, end, context)
        IN  IF e > Len(edits) \/ ~has_edits(hunk) THEN <<>>
            ELSE <<hunk>> \o hunks[end]
  IN  hunks[1]

-----------------------------------------------------------------------------
(* What a reader makes of it. *)

\* The lines that the edits leave of left and take from right.
Replay(left, right, edits) ==
  LET done[e \in 1 .. Len(edits) + 1] ==
        IF e = 1 THEN <<>>
        ELSE CASE edits[e - 1] = kMatch
                    -> Append(done[e - 1], left[LeftDone(edits, e)])
               [] edits[e - 1] = kRemove -> done[e - 1]
               [] OTHER -> Append(done[e - 1], right[RightDone(edits, e)])
  IN  done[Len(edits) + 1]

\* The texts of the lines of a hunk with one of the marks.
LinesOf(lines, marks) ==
  LET chosen[k \in 0 .. Len(lines)] ==
        IF k = 0 THEN <<>>
        ELSE IF lines[k][1] \in marks THEN Append(chosen[k - 1], lines[k][2])
        ELSE chosen[k - 1]
  IN  chosen[Len(lines)]

\* patch: what becomes of left if each hunk is put into its place.
Patch(left, hunks) ==
  LET n == Len(hunks)
      Behind(h) == hunks[h].left_start + Len(LinesOf(hunks[h].lines, {" ", "-"}))
      patched[h \in 0 .. n] ==
        IF h = 0 THEN <<>>
        ELSE patched[h - 1]
               \o SubSeq(left, IF h = 1 THEN 1 ELSE Behind(h - 1),
                         hunks[h].left_start - 1)
               \o LinesOf(hunks[h].lines, {" ", "+"})
  IN  patched[n] \o SubSeq(left, IF n = 0 THEN 1 ELSE Behind(n), Len(left))

\* Each hunk shows the lines of left that are where it starts.
Fits(left, hunks) ==
  \A h \in DOMAIN hunks :
    LET shown == LinesOf(hunks[h].lines, {" ", "-"})
    IN  \A k \in DOMAIN shown :
          /\ hunks[h].left_start + k - 1 \in DOMAIN left
          /\ shown[k] = left[hunks[h].left_start + k - 1]
=============================================================================
