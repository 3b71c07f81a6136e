-------------------------- MODULE MCEffectiveArea --------------------------
(* Lines of three to five points of a few places, with repeated and         *)
(* collinear ones.                                                          *)
EXTENDS EffectiveArea

Place == {<<0, 0>>, <<1, 0>>, <<0, 1>>, <<2, 1>>, <<3, 3>>}
MCLine == UNION {{l \in [0 .. n - 1 -> Place] : l[0] = <<0, 0>>} : n \in 3..5}
=============================================================================
