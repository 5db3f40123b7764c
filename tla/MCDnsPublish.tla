---------------------------- MODULE MCDnsPublish ----------------------------
(* Small instances of DnsPublish for TLC. *)
EXTENDS DnsPublish
=============================================================================
