------------------------ MODULE MCPushNotifications ------------------------
\* Instance of PushNotifications for TLC: the sharer's device subscribes to the
\* home, the sharee's to the shared collection.
EXTENDS PushNotifications
CONSTANTS t1, t2, h, c
Shared == {<<t1, h>>, <<t2, c>>}
=============================================================================
