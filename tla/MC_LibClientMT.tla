--------------------------- MODULE MC_LibClientMT ---------------------------
(* Two application threads; keys 0 .. 2, with key 0 free or already taken  *)
(* by another library (glog and Thrift may create keys of their own).      *)
EXTENDS LibClientMT

CONSTANTS t1, t2

MCThread == {t1, t2}
MCKey == 0 .. 2
MCOtherKeys == {{}, {0}}
=============================================================================
