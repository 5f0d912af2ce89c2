----------------------------- MODULE MCDaemonSolo -----------------------------
(* One daemon slot that is started again and again, with nobody beside it,   *)
(* over the text of the hosts file.                                          *)
EXTENDS HostsEditing

CONSTANT d1

MCDaemons == {d1}
MCHelpers == {}
MCWords == {"a", "b", "c", "kiro"}
MCHosts == <<"kiro">>

(* Nothing; a line without its end; one that ends the Windows way; two lines *)
(* with blank ones around them.                                              *)
MCUserTexts ==
  {<<>>, <<"b">>, <<"c", "\r", "\n">>, <<"\n", "a", "\n", "\n", "b", "\n", "\n">>}
=============================================================================
