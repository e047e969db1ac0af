------------------------------- MODULE MCParts -------------------------------
(* Parts for TLC: the bodies and texts that are sent, and a view. *)
EXTENDS Parts

CONSTANTS MaxLen, TextLen, RawLen   \* lengths of bodies, texts and bodies of other hosts

\* Bodies of command codes.
CodeBodies == UNION {[1..n -> {b}] : n \in 0..MaxLen, b \in BodyCommands \cup {InfoCommand}}

\* Texts of up to TextLen bytes, and every short body of any bytes.
ShortTexts == UNION {[1..n -> 0..1] : n \in 0..TextLen}
ShortBodies == UNION {[1..n -> 0..MaxText] : n \in 0..RawLen}

\* What the parser will never read again is left out.
PartsView ==
    <<part, vars, singleVars, flashVars, splitterVars, configVars, payloadVars,
      pState, IF pState = "IDLE" THEN 0 ELSE pCmd, IF pState = "NEED_BODY" THEN pLen ELSE 0,
      pHave, IF pState = "NEED_LEN" /\ pHave = 1 THEN pLenLo ELSE 0, pBuf,
      line, result, ended, upset>>
===============================================================================
