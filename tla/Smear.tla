-------------------------------- MODULE Smear --------------------------------
(* The pseudo-random order of the mesh election (WimshCoordinatorStandard::   *)
(* inline_smear), computed on an unsigned short as the code does.             *)
EXTENDS Naturals, Bitwise

Width == 2^16

\* val += val << k  and  val ^= val >> k.
Add(val, k) == (val + val * 2^k) % Width
ShiftXor(val, k) == val ^^ (val \div 2^k)

inline_smear(val) ==
    LET v1 == ShiftXor(Add(val % Width, 12), 22)
        v2 == ShiftXor(Add(v1, 4), 9)
        v3 == ShiftXor(Add(v2, 10), 2)
    IN ShiftXor(Add(v3, 7), 12)

\* What meshElection compares for node n and the absolute slot number x.
smear_val1(n, x) == inline_smear(n ^^ x)
smear_val2(n, x) == inline_smear(n + x)
=============================================================================
