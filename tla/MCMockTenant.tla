---------------------------- MODULE MCMockTenant ----------------------------
(* Model values and the small instance of MockTenant.                      *)
EXTENDS MockTenant, TLC

CONSTANTS i1, i2, s1

TwoIds    == {i1, i2}
OneStream == {s1}
SomeFilters == {Kinds, {"RecordDeleted"}}
TimedOnly   == {"recv_timeout"}
=============================================================================
