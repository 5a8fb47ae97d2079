-------------------------- MODULE MCDeviceProfiles --------------------------
(***************************************************************************)
(* Instances of DeviceProfiles for TLC.  "v0" is the empty value, which    *)
(* name and window_width reject; extra accepts every value.  The bodies    *)
(* are: two complete profiles with different names, a resize, a rename,    *)
(* and a body that explicitly sends an invalid width.                      *)
(***************************************************************************)
EXTENDS DeviceProfiles, TLC

MCField == {"name", "window_width", "extra"}
MCValue == {"v0", "v1", "v2"}
MCZero == [f \in MCField |-> "v0"]
MCAccepted == [f \in MCField |-> IF f = "extra" THEN MCValue ELSE {"v1", "v2"}]

Sent(name, width, extra) ==
    [f \in MCField |-> IF f = "name" THEN name ELSE IF f = "extra" THEN extra ELSE width]

MCPayload == {Sent("v1", "v1", Nil), Sent("v2", "v1", "v1"), Sent("v2", Nil, Nil),
              Sent(Nil, "v2", Nil), Sent(Nil, "v0", Nil)}
RacePayload == {Sent("v1", "v1", Nil), Sent("v2", Nil, Nil), Sent(Nil, "v2", Nil)}

TemplateBody(name, width) ==
    [f \in MCField \ {"extra"} |-> IF f = "name" THEN name ELSE width]
MCCatalogs == [Slug -> {TemplateBody("v1", "v2"), TemplateBody("v2", "v1")}]
RaceCatalogs == [Slug -> {TemplateBody("v1", "v2")}]

Symmetry == Permutations(Request) \cup Permutations(User)
=============================================================================
