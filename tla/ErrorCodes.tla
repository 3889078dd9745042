------------------------------- MODULE ErrorCodes ------------------------------
(***************************************************************************)
(* errors.lock.json, the table of stable error codes:                      *)
(* src/src/gen/ir/errors_lock.zig as generate of src/src/gen/generator.zig *)
(* uses it.  A run parses the committed file, gives the errors it does not *)
(* know the next codes, and writes the table back.  Between two runs the   *)
(* file may be edited, or merged, into anything.                           *)
(***************************************************************************)
EXTENDS Integers, FiniteSets, Functions

CONSTANTS
  ErrorNames,
  MaxCode      \* the largest code: 2^31 - 1, a signed 32-bit number

ASSUME ErrorCodesAssumption == MaxCode \in Nat \ {0} /\ IsFiniteSet(ErrorNames)

VARIABLES
  codes, next_code,  \* the file: a code per name, and the next code to give
  edited,            \* history: the table as it was last edited by hand
  known,             \* history: the errors of the last run
  accepted           \* the last run wrote its table

lockVars == <<codes, next_code, edited, known, accepted>>

\* Mutant: the table may be shorter than the codes it gave.
validateStateGaps(table, next) ==
  /\ next > 0
  /\ \A n \in DOMAIN table : table[n] \in 1..(next - 1)
  /\ \A m, n \in DOMAIN table : table[m] = table[n] => m = n

validateState(table, next) ==
  /\ next > 0
  /\ Cardinality(DOMAIN table) = next - 1
  /\ \A n \in DOMAIN table : table[n] \in 1..(next - 1)
  /\ \A m, n \in DOMAIN table : table[m] = table[n] => m = n

validateAgainst(table, next, baseline, baselineNext) ==
  /\ validateState(table, next) /\ validateState(baseline, baselineNext)
  /\ next >= baselineNext
  /\ \A n \in DOMAIN table \ DOMAIN baseline : table[n] >= baselineNext
  /\ \A n \in DOMAIN baseline : n \in DOMAIN table /\ table[n] = baseline[n]

\* assign: the names that are new get the codes from next_code on, in the order
\* the document lists them.
assign(fresh, place) ==
  [n \in DOMAIN codes \union fresh |->
     IF n \in fresh THEN next_code + place[n] ELSE codes[n]]

\* Before there is a file the table is the empty one.
LockInit ==
  /\ codes = [n \in {} |-> 0] /\ next_code = 1
  /\ edited = codes /\ known = {} /\ accepted = FALSE

\* Somebody edits the file, or merges another one into it: entry by entry it
\* becomes any table of the numbers parse lets through.
Edit ==
  /\ \/ \E n \in ErrorNames, c \in -1..MaxCode :
          codes' = [m \in DOMAIN codes \union {n} |-> IF m = n THEN c ELSE codes[m]]
     \/ \E n \in DOMAIN codes : codes' = Restrict(codes, DOMAIN codes \ {n})
     \/ UNCHANGED codes
  /\ next_code' \in 0..MaxCode
  /\ edited' = codes' /\ known' = {} /\ accepted' = FALSE

RefuseRun(names) ==
  /\ accepted' = FALSE /\ known' = names
  /\ UNCHANGED <<codes, next_code, edited>>

\* The table does not parse, or the codes run out.
GenerateRefused ==
  \E names \in SUBSET ErrorNames :
    /\ \/ ~validateState(codes, next_code)
       \/ next_code + Cardinality(names \ DOMAIN codes) > MaxCode
    /\ RefuseRun(names)

Generate ==
  \E names \in SUBSET ErrorNames :
    LET fresh == names \ DOMAIN codes
        count == Cardinality(fresh) IN
    /\ validateState(codes, next_code)
    /\ next_code + count <= MaxCode
    /\ \E place \in Bijection(fresh, 0..(count - 1)) :
         IF validateAgainst(assign(fresh, place), next_code + count,
                             codes, next_code)
         THEN /\ codes' = assign(fresh, place)
              /\ next_code' = next_code + count
              /\ accepted' = TRUE /\ known' = names
              /\ UNCHANGED edited
         ELSE RefuseRun(names)

LockNext == Edit \/ GenerateRefused \/ Generate

LockSpec == LockInit /\ [][LockNext]_lockVars

-----------------------------------------------------------------------------
(* "append-only": what a run writes keeps every code of the file as it was  *)
(* last edited, also of errors the document no longer has, whatever ran     *)
(* since; every error has a code of its own; and no code below the next one *)
(* is without an error, so that none was given before and lost.  An edit is *)
(* taken at face value: one that swaps two codes parses and is kept.        *)
CodesAppendOnly ==
  accepted =>
    /\ \A n \in DOMAIN edited : n \in DOMAIN codes /\ codes[n] = edited[n]
    /\ known \subseteq DOMAIN codes
    /\ \A m, n \in DOMAIN codes : codes[m] = codes[n] => m = n
    /\ {codes[n] : n \in DOMAIN codes} = 1..(next_code - 1)
=============================================================================
