------------------------------ MODULE MCAgent ------------------------------
EXTENDS Agent

(* No pod, one that was never scheduled, a healthy one, a broken one. *)
SmallFound ==
  {NoPod, [NoPod EXCEPT !.phase = "stuck"]}
    \cup [phase : {"running"}, container : [Container -> {<<"ready", 0>>}]
                                             \cup [Container -> Waiting \X {0}]]
============================================================================
