----------------------------- MODULE MCBankCall ------------------------------
(***************************************************************************)
(* main calls a and b, a calls b, over eight banks; all ways to place a    *)
(* and b in banks that matter to the mapper, and to bundle calls or not,   *)
(* that switch banks wherever a call crosses them.  For the mapper with    *)
(* two resident banks also a chain of three bundled calls.                 *)
(***************************************************************************)
EXTENDS BankCall
CONSTANTS main, a, b, c, none

MCFunction == {main, a, b, c}

Calls == {<<main, a>>, <<main, b>>, <<a, b>>}
Chain == {<<main, a>>, <<a, b>>, <<b, c>>}

Places(f) == CASE f = "selector" -> {0, 1, 7}
               [] f = "advance" -> {0, 5}
               [] f = "staged" -> {0, 6}
               [] f \in {"delayed", "stackbus"} -> {0, 1}
               [] f = "pair" -> {0, 1, 2, 6, 7}
               [] OTHER -> {0, 1, 7}

Linked(family, call, bundle, ba, bb, bc, ram) ==
    [family |-> family, call |-> call, bundle |-> bundle, main |-> main,
     bank |-> [g \in MCFunction |->
                  CASE g = main -> IF family \in {"staged", "delayed", "stackbus"} THEN 0 ELSE 7
                    [] g = a -> ba
                    [] g = b -> bb
                    [] g = c -> bc],
     ram |-> ram]

Placed(f) ==
    {Linked(f, Calls, d, ba, bb, 0, r) :
        d \in IF f = "stackbus" THEN {{}} ELSE SUBSET Calls, ba \in Places(f), bb \in Places(f),
        r \in IF f = "fixedRam" THEN {{}, {b}} ELSE {{}}}

Chained ==
    {Linked("pair", Chain, Chain, ba, bb, bc, {}) :
        ba \in {0, 2, 6}, bb \in {0, 2, 6}, bc \in {0, 1, 4, 6}}

\* The swapram helpers are in the fixed bank and are always called by bundles.
MCProgram ==
    {p \in Chained \cup UNION {Placed(f) : f \in Family} :
        Bridged(p) /\ (p.ram = {} \/ (p.bank[b] = 7 /\ {<<main, b>>, <<a, b>>} \subseteq p.bundle))}

\* F0, every function placed by the linker: no call is a bundle.
AutoProgram ==
    {Linked("advance", {<<main, a>>, <<a, b>>}, {}, ba, 7, 7, {}) : ba \in {3, 7}}
=============================================================================
