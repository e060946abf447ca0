------------------------------- MODULE MCXtask -------------------------------
(***************************************************************************)
(* Somebody else's frames: one nobody takes for the injected one, and one  *)
(* with a longer identifier that prints alike.  And a small tree, with     *)
(* markers below `target`, in a file to be passed over, in one that is no  *)
(* text and in one that counts.                                            *)
(***************************************************************************)
EXTENDS Xtask, TLC

MCForeign ==
  {[extended |-> FALSE, tail |-> "7FF", data |-> "01 02 03 04", fd |-> FALSE],
   [extended |-> TRUE, tail |-> "123", data |-> "01 02 03 04", fd |-> TRUE]}

MCInside ==
  [d \in {"/", "/src", "/target", "/target/debug"} |->
     CASE d = "/" -> {"/src", "/target", "/AGENTS.md", "/README.md"}
       [] d = "/src" -> {"/src/lib.rs", "/src/x.blf"}
       [] d = "/target" -> {"/target/debug"}
       [] d = "/target/debug" -> {"/target/debug/out.rs"}]
MCSkipped == {"/target", "/AGENTS.md"}
MCUnreadable == {"/src/x.blf"}
MCPushes == "push" :> <<"main">> @@ "push-topic" :> <<"topic">> @@ "push-both" :> <<"main", "topic">>
MCSessions ==
  {<<"codegen", "codegen">>, <<"check-placeholders", "check-placeholders">>,
   <<"ci-hosted", "push-topic", "push">>,
   <<"install-hooks", "install-hooks", "push", "push-topic", "push-both">>,
   <<"ci-linux-local", "ci-linux-local", "install-hooks">>}
MCMarked == {"/src/lib.rs", "/src/x.blf", "/AGENTS.md", "/target/debug/out.rs"}
=============================================================================
