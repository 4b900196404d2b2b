--------------------------- MODULE MCWindowsFleet ---------------------------
(* Two Windows endpoints; acceptance tries its scenarios on one each.      *)
EXTENDS WindowsFleet

MCCommands ==
    {<<UpStep>>, <<DownStep>>, <<ScenarioStep(1, "001")>>, Acceptance(1, 2)}

FewCommands == {<<UpStep>>, <<DownStep>>}

=============================================================================
