------------------------------- MODULE MCWire -------------------------------
(* Two senders of a session: one sends a key down or a mouse packet and then  *)
(* a heartbeat, the clipboard watcher two chunks, the last one not full, and  *)
(* ClipboardDataEnd.                                                          *)
EXTENDS Wire

CONSTANTS loop, watcher

Bursts == [s \in Senders |-> IF s = watcher THEN 3 ELSE 2]

Of(t, body, raw) == [type |-> t, id |-> 0, src |-> "linux", body |-> body, raw |-> raw, name |-> <<>>]

Traffic ==
    [s \in Senders |->
        CASE s = loop -> <<{Of(Keyboard, <<"DateTime", "key">>, <<>>), Of(Mouse, <<"xy", "flags">>, <<>>)},
                           {Of(Heartbeat, <<>>, <<>>)}>>
          [] s = watcher -> <<{Of(ClipboardText, <<>>, <<"c1", "c2", "c3", "c4", "c5", "c6">>)},
                              {Of(ClipboardText, <<>>, <<"c7", zero, "c8">>)},
                              {Of(ClipboardDataEnd, <<>>, <<>>)}>>]
Name == <<"my-", "host">>
=============================================================================
