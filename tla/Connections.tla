------------------------------- MODULE Connections -------------------------------
\* Who may connect: shared by the hub, by what it promises, and by what is built on it.
CONSTANTS
    Clients,      \* websocket connections (client)
    Logins,
    LoginOf       \* client.login
=============================================================================
