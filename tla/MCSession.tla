----------------------------- MODULE MCSession ------------------------------
(* A session on a small instance, for TLC.                                 *)
EXTENDS Session

Line(source, count, saves, given, agrees, checks) ==
  [source |-> source, frame_count |-> count, save_sent |-> saves,
   module_given |-> given, agrees |-> agrees, checks_module |-> checks]

\* The two usual sessions, the one whose ends disagree, the one that sends too
\* little, and inputs that the sender, the receiver or neither may refuse.
SmallCommandLines ==
  {Line(Simulated, 2, FALSE, TRUE, TRUE, TRUE),
   Line(Simulated, 2, TRUE, FALSE, TRUE, FALSE),
   Line(Simulated, 2, FALSE, FALSE, FALSE, FALSE),
   Line(Simulated, 1, FALSE, TRUE, TRUE, TRUE),
   Line(<<"valid">>, 2, TRUE, TRUE, TRUE, TRUE),
   Line(<<"valid", "invalid">>, 2, FALSE, FALSE, TRUE, FALSE),
   Line(<<"valid", "other_rate">>, 2, FALSE, FALSE, TRUE, FALSE)}
    \union
  {Line(<<"other_module", "valid">>, 2, FALSE, module, TRUE, checked) :
     module, checked \in BOOLEAN}
=============================================================================
