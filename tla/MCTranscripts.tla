--------------------------- MODULE MCTranscripts ----------------------------
(* The ten formats, a few records of each, of the kinds that its reader    *)
(* takes differently, and the directory setups that tell its lists apart.  *)
EXTENDS Transcripts

MCSetups(t) ==
    CASE t = "gemini-cli" -> {<<"unset", "home">>, <<"unset", "sub">>}
      [] t = "claude-code" -> {<<"unset", "root">>}
      [] t = "copilot-cli" -> {<<"unset", "sub">>}
      [] t \in {"opencode", "cursor"} -> {<<"alias", "home">>}
      [] t = "codex-cli" -> {<<"alias", "home">>, <<"other", "other">>}
      [] t = "continue-dev" -> {<<"alias", "home">>}
      [] t = "aider" ->
            {<<"alias", "home">>, <<"unset", "sub">>, <<"unset", "far">>, <<"unset", "deep">>}
      [] t = "cline" -> {<<"other", "other">>}
      [] OTHER -> {<<"unset", "home">>, <<"blank", "home">>, <<"home", "home">>,
                   <<"alias", "home">>, <<"other", "home">>, <<"other", "other">>,
                   <<"unset", "root">>, <<"unset", "sub">>}

Rec(type, text, parts, at) ==
    [type |-> type, text |-> text, parts |-> parts, body |-> TRUE, at |-> at]
Bodiless(type) == [Rec(type, <<>>, {}, "own") EXCEPT !.body = FALSE]

Said(type, at) == Rec(type, <<"p">>, {}, at)
Mute(type) == Rec(type, <<>>, {}, "own")

MCWritten(t) ==
    CASE t = "claude-code" ->
            {Said("user", "own"), Said("assistant", "none"), Bodiless("user"),
             Rec("user", <<>>, {"result"}, "none"), Said("summary", "own")}
      [] t = "codex-cli" ->
            {Said("user", "none"), Mute("assistant"), Said("user_message", "own"),
             Bodiless("agent_message"), Mute("error"), Said("function_call_output", "own"),
             Said("item", "own"), Said("session_meta", "own")}
      [] t = "copilot-cli" ->
            {Said("user", "own"), Said("user_other", "own"),
             Rec("assistant", <<"p">>, {"request"}, "none"), Mute("tool_complete"),
             Said("session_start", "own")}
      [] t = "continue-dev" ->
            {Rec("user", <<"f", "p">>, {"call", "result"}, "none"), Said("other", "none")}
      [] t = "aider" ->
            {Rec("head", <<"p">>, {}, "early"), Rec("head", <<"p">>, {}, "none"),
             Said("user", "none"), Mute("user"), Said("tool", "none"), Said("prose", "none"),
             Rec("fence", <<"f">>, {}, "none"), Mute("blank")}
      [] t = "gemini-cli" ->
            {Said("user", "none"), Rec("gemini", <<>>, {"thought"}, "none"),
             Rec("gemini", <<"f", "p">>, {"call", "result"}, "own"), Mute("user"),
             Said("info", "own"), Bad}
      [] t = "cline" ->
            {Said("user", "none"), Said("assistant", "none"), Mute("user"),
             Rec("user", <<>>, {"result"}, "none"), Said("other", "none"), Bad}
      [] t = "zed-ai" ->
            {Said("human", "own"), Said("model", "none"), Said("system", "none"), Mute("user"),
             Said("other", "none"), Bad}
      [] t = "opencode" ->
            {Rec("user", <<>>, {"title"}, "none"), Said("assistant", "early"),
             Said("other", "own")}
      [] t = "cursor" ->
            {Said("user", "own"), Rec("unsaid", <<>>, {}, "early"), Huge}
=============================================================================
