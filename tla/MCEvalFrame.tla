----------------------------- MODULE MCEvalFrame -----------------------------
(***************************************************************************)
(* Two threads, a call of a function and two generators of another, which  *)
(* may call each other; two results, so that both are compiled, or one of  *)
(* them again, and where memory was freed.                                 *)
(***************************************************************************)
EXTENDS EvalFrame, TLC

CONSTANTS t1, t2, f1, g1, g2, c1, c2, r1, r2

MCThread    == {t1, t2}
MCFrame     == {f1, g1, g2}
MCGenerator == {g1, g2}
MCCode      == {c1, c2}
MCf_code    == (f1 :> c1) @@ (g1 :> c2) @@ (g2 :> c2)
MCResult    == {r1, r2}

Symmetry ==
  {p @@ q @@ r : p \in Permutations(MCThread), q \in Permutations(MCGenerator),
                 r \in Permutations(MCResult)}

\* What is left in a frame that has returned or raised, which nobody reads, is not
\* told apart.
Done == {f \in Frame : f_state[f] \in {"returned", "raised"}}
View ==
  <<extra, loaded, object, out_vec, failed, lost, tstates, overtaken \ Done,
    [f \in Frame \ Done |-> <<f_state[f], f_back[f], started[f], entry[f], resume[f]>>]>>
=============================================================================
