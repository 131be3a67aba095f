---------------------------- MODULE MCConnection ----------------------------
(* The instance of Connection that TLC checks: what a user may type is a   *)
(* word with a space in front and a "=" in it, or a word with a semicolon  *)
(* behind it and there what reads as another parameter.                    *)
EXTENDS Connection

MCKeyOrder ==
  <<"cleanup_user_map", "error_code", "error_msg", "friend_count", "friends",
    "from_user_id", "from_username", "msg", "new_password", "old_password",
    "password", "request_count", "requests", "target_user_id",
    "target_username", "token", "user_id", "username">>

MCTyped == {<<"SP", "al", "=", "bo">>, <<"al", "SEMI", "password", "=", "bo">>}

MCNames == {<<"al">>, <<"al", "SP", "[ONLINE]|bo", "SP", "[OFFLINE]|cy", "SP",
                         "[OFFLINE]">>}
=============================================================================
