-------------------------- MODULE MCHostInfoDialog --------------------------
(***************************************************************************)
(* HostInfoDialog for TLC.  The three length limits are 1, 2 and 3 so that *)
(* a string can be too long for one control and short enough for another;  *)
(* the port texts sit on both sides of MAX_PORT and of the UINT range.     *)
(***************************************************************************)
EXTENDS HostInfoDialog

T(len, has) == [len |-> len, has |-> has]
N(val)      == [kind |-> "number", val |-> val]

MCPresetTexts == {T(1, {"plain"}), T(1, {"ctrl"})}
MCPresetPorts == {22, 65535}

MCTypedTexts ==
  {T(0, {}), T(1, {"plain"}), T(1, {"punct"}), T(1, {"ctrl"}),
   T(2, {"plain"}), T(3, {"plain"}), T(4, {"plain"})}

MCTypedPorts ==
  {BlankPort, N(22), N(65535), N(65536), [kind |-> "huge", val |-> 0]}

=============================================================================
