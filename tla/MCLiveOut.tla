----------------------------- MODULE MCLiveOut -----------------------------
(***************************************************************************)
(* A function with a block before the Scop, the Scop, its exit and a block *)
(* behind, and a block of another function.  v and w are addresses, x and  *)
(* y any instructions.                                                     *)
(***************************************************************************)
EXTENDS LiveOut

CONSTANTS Before, Inside, Exit, Behind, Other, v, w, x, y

MCBlock == {Before, Inside, Exit, Behind, Other}
MCValue == {v, w, x, y}

(* The Scop is run once, or in a loop. *)
Once   == [b \in MCBlock |-> CASE b = Before -> {Before, Inside} [] b = Inside -> {Inside, Exit}
                               [] b = Exit -> {Behind} [] OTHER -> {}]
Looped == [Once EXCEPT ![Exit] = {Behind, Inside}]

Program(base, kx, ky, bv, bx, by, ub, uv, uw, succ, aliases) ==
    [base    |-> base,
     kind    |-> [u \in MCValue |-> CASE u = x -> kx [] u = y -> ky [] OTHER -> "address"],
     block   |-> [u \in MCValue |-> CASE u = v -> bv [] u = w -> Behind [] u = x -> bx [] u = y -> by],
     users   |-> [u \in MCValue \cup {BasePtr} |->
                    CASE u = BasePtr -> ub [] u = v -> uv [] u = w -> uw [] OTHER -> {}],
     succ    |-> succ,
     exit    |-> Exit,
     aliases |-> aliases]

LocalKinds == {"load", "store", "call", "free"}

(***************************************************************************)
(* Memory of the function itself whose pointer is neither stored nor       *)
(* returned nor reallocated; no address is computed from itself.           *)
(***************************************************************************)
LocalPrograms ==
    {Program("fresh", kx, ky, bv, bx, by, ub, uv, uw, succ, {}) :
        kx \in LocalKinds, ky \in LocalKinds, bv \in {Before, Exit},
        bx \in {Before, Behind}, by \in {Inside, Behind},
        ub \in {{v}, {v, x}}, uv \in SUBSET {w, x, y}, uw \in SUBSET {x, y},
        succ \in {Once, Looped}}

(* Every kind of pointer and of instruction. *)
AnyPrograms ==
    {Program(base, kx, ky, Exit, bx, Behind, {v, x}, uv, uw, succ, {}) :
        base \in Bases, kx \in Kinds, ky \in Kinds, bx \in {Before, Behind},
        uv \in {{w}, {w, y}}, uw \in {{}, {v}, {y}, {v, y}}, succ \in {Once, Looped}}

MCPrograms == LocalPrograms \cup AnyPrograms

(* for (p = base; ..; p++) .. = *p; before the Scop; the memory is freed behind it. *)
PointerLoop ==
    {[Program("fresh", "load", "free", Before, Before, Behind, {v, y}, {x, w}, {v}, Once, {})
        EXCEPT !.block[w] = Before]}

(* static int A[..]; the Scop writes A; another function reads it. *)
StaticArray ==
    {Program("internal", "load", "store", Other, Other, Inside, {v}, {x}, {}, Once, {}),
     Program("internal", "load", "store", Before, Before, Inside, {v}, {x}, {}, Once, {})}

(* int *p = malloc(..); the Scop writes p; return p. *)
Returned == {Program("fresh", "return", "store", Inside, Behind, Inside, {v, x}, {y}, {}, Once, {})}

(* int *p = malloc(..); the Scop writes p; q = realloc(p, ..). *)
Reallocated == {Program("fresh", "realloc", "store", Inside, Behind, Inside, {v, x}, {y}, {}, Once, {})}

(* int *p = malloc(..); s->p = p; the Scop writes p; .. = s->p[i]. *)
Stored == {Program("fresh", "store", "load", Before, Before, Behind, {x}, {}, {y}, Once, {w})}

(* Each leaves the search by a way it does not follow. *)
Escaping == StaticArray \cup Returned \cup Reallocated \cup Stored
=============================================================================
