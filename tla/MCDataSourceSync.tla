------------------------- MODULE MCDataSourceSync --------------------------
(* Data sources that come, go, are hidden and change places; one sync runs *)
(* while another one waits.                                                *)
EXTENDS DataSourceSync
=============================================================================
