--------------------------- MODULE MCGraphicsBuild ---------------------------
(***************************************************************************)
(* GraphicsBuild.cfg: requests of every shape over two codes, one of them  *)
(* a position metric, one after the other, while the catalogue changes.    *)
(* Requests share nothing but the catalogue, so one handler stands for     *)
(* all.                                                                    *)
(***************************************************************************)
EXTENDS GraphicsBuild

AllVisuals == {<<>>, <<"pie", "position_distribution", "line", "pie">>}
OneVisual  == {<<"line">>}
=============================================================================
