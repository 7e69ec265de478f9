-------------------------- MODULE MCBaselineWatch --------------------------
(* Small instance of BaselineWatch: LastSecond * MinGap is below Duration, *)
(* so that a window may have all its readings and still be too short.      *)
EXTENDS BaselineWatch
============================================================================
