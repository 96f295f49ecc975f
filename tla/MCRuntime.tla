------------------------------- MODULE MCRuntime -------------------------------
(* Runtime with the configurations that its runs need.                     *)
EXTENDS Runtime

Setting(g, u, t, c, m) ==
    [gameLogs |-> g, unsigned |-> u, tls |-> t, certCompat |-> c, manifestKey |-> m]

(* Everything on.                                                          *)
FullSettings == {Setting(TRUE, TRUE, TRUE, TRUE, TRUE)}

(* A manifest key is the only feature that needs the hook library.         *)
KeyOnly == {Setting(FALSE, TRUE, TRUE, FALSE, TRUE)}

(* Everything on; the pump's features alone; the parts of initialize alone. *)
SomeSettings == {Setting(TRUE, TRUE, TRUE, TRUE, TRUE),
                 Setting(FALSE, FALSE, FALSE, TRUE, TRUE),
                 Setting(TRUE, TRUE, TRUE, FALSE, FALSE)}
================================================================================
