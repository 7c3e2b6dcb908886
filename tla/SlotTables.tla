----------------------------- MODULE SlotTables -----------------------------
(***************************************************************************)
(* The circular tables of the bandwidth managers: one row per frame, modulo  *)
(* Horizon, one column per minislot.  A bitmap is the set of its cells that  *)
(* are true; a table of values is a function on the cells.  Frame numbers    *)
(* never wrap around, rows do.                                               *)
(***************************************************************************)
EXTENDS Integers, FiniteSetsExt

CONSTANTS Horizon,   \* rows of a table (HORIZON = 128)
          Slots,     \* minislots of a frame (slotPerFrame)
          UintMod    \* modulus of unsigned int (2^32), scaled down

ASSUME SlotTablesAssumption ==
    /\ Horizon \in Nat \ {0}
    /\ Slots \in Nat \ {0}
    /\ UintMod \in Nat /\ UintMod > Horizon

Minislot == 0 .. Slots - 1
TableCell == (0 .. Horizon - 1) \X Minislot

Uint(x) == x % UintMod

\* Mutant of Block: the index of a row is not taken modulo Horizon.
BlockNoWrap(fstart, frange, mstart, mrange) ==
    (fstart .. fstart + frange - 1) \X (mstart .. mstart + mrange - 1)

\* The cells setSlots writes.  More than Horizon frames write every row.
Block(fstart, frange, mstart, mrange) ==
    {(fstart + f) % Horizon : f \in 0 .. Min({frange, Horizon}) - 1}
        \X (mstart .. mstart + mrange - 1)

\* A table after setSlots (table, ..., value) on the cells of block.
Stamp(table, block, value) ==
    [c \in DOMAIN table |-> IF c \in block THEN value ELSE table[c]]

\* Mutant of Row: the row of the frame that comes next.
NextRow(f) == {(f + 1) % Horizon} \X Minislot

Row(f) == {f % Horizon} \X Minislot

\* The minislots of row f for which the bitmap is true.
At(bitmap, f) == {s \in Minislot : <<f % Horizon, s>> \in bitmap}

\* Mutants of realPersistence: the frames already over are not deducted, or the
\* reservation is moved to the current frame even if it starts later.
WholeRange(now, start, pers) == pers
StartNow(now, start) == now

\* realPersistence at frame now, in unsigned arithmetic.
RealStart(now, start) == IF start >= now THEN start ELSE now
RealRange(now, start, pers) ==
    IF start >= now THEN pers ELSE Uint(pers - (now - start))

\* The first run of free minislots, at most len long.
FirstRun(free, len) ==
    IF free = {} THEN [start |-> 0, range |-> 0]
    ELSE LET s == Min(free)
         IN [start |-> s,
             range |-> Max({k \in 0 .. len : s .. s + k - 1 \subseteq free})]
=============================================================================
