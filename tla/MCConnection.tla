---------------------------- MODULE MCConnection ----------------------------
(***************************************************************************)
(* An instance of Connection: every request that is counted and the one    *)
(* that ends the task, batches of two filters, and one message beyond each *)
(* limit of the reader.  Headers, which are not counted, and announcements *)
(* take the way of other messages and are left out.                        *)
(***************************************************************************)
EXTENDS Connection

Message(kind, len, kept) == [kind |-> kind, len |-> len, kept |-> kept]

MCWire ==
    {Message(k, 1, 1) : k \in {"version", "verack", "cfheaders", "cfilter", "block", "ping", "getdata"}}
    \cup {Message("addr", 2, 1), Message("addr", MAX_ADDR + 1, 1),
          Message("inv", MAX_INV + 1, 1), Message("headers", MAX_HEADERS + 1, 1)}

MCRequests == {"GetAddr", "GetFilterHeaders", "GetFilters", "GetBlock", "BroadcastTx", "Disconnect"}
=============================================================================
