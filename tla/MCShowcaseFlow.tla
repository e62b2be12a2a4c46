----------------------------- MODULE MCShowcaseFlow -----------------------------
(***************************************************************************)
(* Instance for TLC: prompts that begin with a space, have a word of four  *)
(* characters, several spaces in a row, and punctuation beside both; and a *)
(* default prompt whose chunks are cut elsewhere.                          *)
(***************************************************************************)
EXTENDS ShowcaseFlow

MCDefaultPrompt == <<"w", "w", "w", "w", "s", "w", "p", "s">>

MCDefaultCuts == {2, 5, 8}

MCPrompts ==
  { <<>>,
    <<"s", "w", "w", "w", "w", "s", "s", "p">>,
    <<"w", "p", "p", "w", "s">>,
    MCDefaultPrompt }
=============================================================================
