---------------------------- MODULE ProgramTables ----------------------------
(* The programs of src/example as tables: the calls in the order the code    *)
(* makes them, where each failure leads, what each call acquires, uses and   *)
(* releases.  A program is a sequence of steps; its loop is one of them, and *)
(* what happens inside it is modelled in a module of its own.                *)
EXTENDS Naturals, Sequences, TLC

-----------------------------------------------------------------------------
(* What the calls acquire, use and release.  A call uses what it would       *)
(* crash without.                                                            *)

Methods == {"password", "keyboard-interactive", "publickey"}

Gets(r, used) == [gets |-> {r}, uses |-> used, drops |-> {}]
Uses(used) == [gets |-> {}, uses |-> used, drops |-> {}]
Drops(rs, used) == [gets |-> {}, uses |-> used, drops |-> rs]

(* libssh2_session_free frees the channels of the session too, with those of *)
(* its listeners and of SFTP; not what was opened over SFTP, nor what the    *)
(* program allocated beside it.                                              *)
OfSession == {"session", "channel", "listener", "sftp"}

Api ==
    "libssh2_init"     :> Gets("library", {}) @@
    "fopen"            :> Gets("local", {}) @@
    "socket"           :> Gets("sock", {}) @@
    "connect"          :> Uses({}) @@
    "session_init"     :> Gets("session", {"library"}) @@
    "nonblocking"      :> Uses({"session"}) @@
    "blocking"         :> Uses({"session"}) @@
    "handshake"        :> Uses({"session"}) @@
    "callback_set"     :> Uses({"session"}) @@
    "knownhost_init"   :> Gets("knownhosts", {"session"}) @@
    "knownhost_file"   :> Uses({"knownhosts"}) @@
    "session_hostkey"  :> Uses({"session"}) @@
    "knownhost_free"   :> Drops({"knownhosts"}, {"knownhosts", "session"}) @@
    "userauth_list"    :> Uses({"session"}) @@
    "userauth"         :> Uses({"session"}) @@
    "agent_init"       :> Gets("agent", {"session"}) @@
    "agent_connect"    :> Gets("agent socket", {"agent"}) @@
    "agent_list"       :> Uses({"agent"}) @@
    "publickey_listed" :> Uses({}) @@
    "agent_userauth"   :> Uses({"agent", "session"}) @@
    "agent_disconnect" :> Drops({"agent socket"}, {"agent", "session"}) @@
    "agent_free"       :> Drops({"agent"}, {"agent", "session"}) @@
    "scp_recv2"        :> Gets("channel", {"session"}) @@
    "scp_send"         :> Gets("channel", {"session"}) @@
    "open_session"     :> Gets("channel", {"session"}) @@
    "direct_tcpip"     :> Gets("channel", {"session"}) @@
    "forward_listen"   :> Gets("listener", {"session"}) @@
    "forward_accept"   :> Gets("channel", {"listener", "session"}) @@
    "forward_cancel"   :> Drops({"listener"}, {"listener", "session"}) @@
    "sftp_init"        :> Gets("sftp", {"session"}) @@
    "sftp_open"        :> Gets("handle", {"sftp", "session"}) @@
    "sftp_fstat"       :> Uses({"handle", "sftp"}) @@
    "sftp_mkdir"       :> Uses({"sftp", "session"}) @@
    "sftp_close"       :> Drops({"handle"}, {"handle", "sftp", "session"}) @@
    "sftp_shutdown"    :> Drops({"sftp"}, {"sftp", "session"}) @@
    "channel_request"  :> Uses({"channel", "session"}) @@
    "channel_close"    :> Uses({"channel", "session"}) @@
    "channel_free"     :> Drops({"channel"}, {"channel", "session"}) @@
    "listen_socket"    :> Gets("listensock", {}) @@
    "bind_listen"      :> Uses({}) @@
    "accept"           :> Gets("forwardsock", {}) @@
    "forward_socket"   :> Gets("forwardsock", {}) @@
    "forward_connect"  :> Uses({}) @@
    "close_forward"    :> Drops({"forwardsock"}, {}) @@
    "close_listen"     :> Drops({"listensock"}, {}) @@
    "raw_mode"         :> Gets("raw mode", {}) @@
    "normal_mode"      :> Drops({"raw mode"}, {}) @@
    "file_loop"        :> Uses({"handle", "sftp", "session"}) @@
    "put_loop"         :> Uses({"handle", "sftp", "session", "local"}) @@
    "channel_loop"     :> Uses({"channel", "session"}) @@
    "scp_put_loop"     :> Uses({"channel", "session", "local"}) @@
    "relay_loop"       :> Uses({"channel", "session", "forwardsock"}) @@
    "echo_loop"        :> Uses({"channel", "session"}) @@
    "netconf_session"  :> Uses({"channel", "session"}) @@
    "compare_totals"   :> Uses({}) @@
    "disconnect"       :> Uses({"session"}) @@
    "session_free"     :> Drops(OfSession, {"session"}) @@
    "close"            :> Drops({"sock"}, {}) @@
    "fclose"           :> Drops({"local"}, {"local"}) @@
    "libssh2_exit"     :> Drops({"library"}, {})

(* Calls that exchange messages with the server, and so may return EAGAIN.   *)
(* The loops deal with it themselves.                                        *)
Remote ==
    {"handshake", "userauth", "scp_recv2", "scp_send", "open_session",
     "direct_tcpip", "forward_listen", "forward_accept", "forward_cancel",
     "sftp_init", "sftp_open", "sftp_fstat", "sftp_mkdir", "sftp_close",
     "sftp_shutdown", "channel_request", "channel_close", "channel_free",
     "disconnect", "session_free"}

(* Calls that cannot fail; one that releases fails with EAGAIN or not at all. *)
Sure == {"nonblocking", "blocking", "callback_set"}

(* Calls that ask for a service: the server wants the user logged in.        *)
Services ==
    {"scp_recv2", "scp_send", "open_session", "direct_tcpip",
     "forward_listen", "sftp_init"}

-----------------------------------------------------------------------------
(* Steps.  "fail" says where a failure leads: to a label, out of the program *)
(* ("return"), to the use of what is NULL ("crash"), or on.                  *)

Call(c, f) == [call |-> c, fail |-> f, next |-> "on", again |-> FALSE,
               guard |-> "", label |-> "", among |-> {}]
(* while (call == LIBSSH2_ERROR_EAGAIN), in one of its forms.                *)
Again(c, f) == [Call(c, f) EXCEPT !.again = TRUE]
Do(c) == Call(c, "on")
(* if (x) call; the pointers are NULL from the start and when released.      *)
If(x, s) == [s EXCEPT !.guard = x]
Last(s, f) == [s EXCEPT !.next = f]
At(l, s) == [s EXCEPT !.label = l]
(* The method is chosen from the server's list.                              *)
Choice(ms) == [Call("userauth", "shutdown") EXCEPT !.among = ms]

Library == <<Call("libssh2_init", "return")>>
OpenLocal == <<Call("fopen", "return")>>
Connection == <<Do("socket"), Call("connect", "return"), Call("session_init", "return")>>
CheckedConnection ==
    <<Call("socket", "return"), Call("connect", "return"), Call("session_init", "return")>>
Login == <<Call("handshake", "return"), Call("userauth", "shutdown")>>
BlockingLogin == <<Do("blocking")>> \o Login

(* Faulty variant: the handshake is called once.                             *)
NonblockingLoginOnce ==
    <<Do("nonblocking"), Call("handshake", "return"), Again("userauth", "shutdown")>>

NonblockingLogin ==
    <<Do("nonblocking"), Again("handshake", "return"), Again("userauth", "shutdown")>>

ChosenLogin(ms) ==
    <<Call("handshake", "return"), Call("userauth_list", "crash"), Choice(ms)>>

CloseFile == <<Do("sftp_close"), Do("sftp_shutdown")>>

(* Faulty variant: the socket goes first.                                    *)
ReleaseClosesFirst == <<Do("close"), Do("session_free"), Do("libssh2_exit")>>

Release == <<Do("session_free"), Do("close"), Do("libssh2_exit")>>

(* Faulty variant: farewell after the session is freed.                      *)
ShutdownSwapped ==
    <<At("shutdown", Do("session_free")), Do("disconnect"), Do("close"), Do("libssh2_exit")>>

Shutdown == <<At("shutdown", Do("disconnect"))>> \o Release

PatientShutdown == <<At("shutdown", Again("disconnect", "on"))>> \o Release

(* Faulty variant: the local file is not closed on this way.                 *)
FileShutdownKeepsFile == Shutdown

FileShutdown ==
    <<At("shutdown", Do("disconnect")), Do("session_free"), Do("close"),
      If("local", Do("fclose")), Do("libssh2_exit")>>

-----------------------------------------------------------------------------
(* The programs.                                                             *)

Scp ==
    Library \o Connection \o Login \o
    <<Call("scp_recv2", "shutdown"), Do("channel_loop"), Do("channel_free")>> \o
    Shutdown

ScpNonblock ==
    Library \o Connection \o NonblockingLogin \o
    <<Again("scp_recv2", "shutdown"), Do("channel_loop"), Do("channel_free")>> \o
    Shutdown

ScpWrite ==
    Library \o OpenLocal \o CheckedConnection \o Login \o
    <<Call("scp_send", "shutdown"), Do("scp_put_loop"),
      Do("channel_request"),   \* send_eof, wait_eof, wait_closed
      Do("channel_request"), Do("channel_request"), Do("channel_free")>> \o
    FileShutdown

ScpWriteNonblock ==
    Library \o OpenLocal \o Connection \o NonblockingLogin \o
    <<Again("scp_send", "shutdown"), Do("scp_put_loop"),
      Again("channel_request", "on"),   \* send_eof, wait_eof, wait_closed
      Again("channel_request", "on"), Again("channel_request", "on"),
      Do("channel_free")>> \o
    PatientShutdown

Sftp ==
    Library \o Connection \o <<Do("blocking")>> \o ChosenLogin(Methods) \o
    <<Call("sftp_init", "shutdown"), Call("sftp_open", "shutdown"), Do("file_loop")>> \o
    CloseFile \o Shutdown

(* It downloads to a local file and uploads that; the upload is opened with  *)
(* no loop around, and never closed.                                         *)
SftpRwDownload ==
    Library \o Connection \o
    <<Call("handshake", "return"), Do("nonblocking"), Call("fopen", "shutdown"),
      Again("userauth", "shutdown"), Again("sftp_init", "shutdown"),
      Again("sftp_open", "shutdown"), Do("file_loop"),
      Do("sftp_close"), Do("fclose")>>

SftpRwUpload ==
    <<Call("fopen", "shutdown"), Call("sftp_open", "unopened"), Do("put_loop"),
      At("unopened", Do("sftp_shutdown"))>> \o
    FileShutdown

SftpAppend ==
    Library \o OpenLocal \o Connection \o BlockingLogin \o
    <<Call("sftp_init", "shutdown"), Call("sftp_open", "shutdown"),
      Call("sftp_fstat", "shutdown"), Do("put_loop")>> \o
    CloseFile \o FileShutdown

SftpMkdir ==
    Library \o Connection \o Login \o
    <<Call("sftp_init", "shutdown"), Do("blocking"), Do("sftp_mkdir"),
      Do("sftp_shutdown")>> \o
    Shutdown

SftpMkdirNonblock ==
    Library \o Connection \o Login \o
    <<Call("sftp_init", "shutdown"), Do("nonblocking"), Again("sftp_mkdir", "on"),
      Do("sftp_shutdown")>> \o
    Shutdown

SftpNonblock ==
    Library \o Connection \o NonblockingLogin \o
    <<Again("sftp_init", "shutdown"), Again("sftp_open", "shutdown"),
      Do("file_loop")>> \o
    CloseFile \o PatientShutdown

SftpWrite ==
    Library \o OpenLocal \o Connection \o BlockingLogin \o
    <<Call("sftp_init", "shutdown"), Call("sftp_open", "shutdown"), Do("put_loop")>> \o
    CloseFile \o FileShutdown

SftpWriteNonblock ==
    Library \o OpenLocal \o Connection \o NonblockingLogin \o
    <<Again("sftp_init", "shutdown"), Again("sftp_open", "shutdown"),
      Do("put_loop"), Do("fclose")>> \o
    CloseFile \o PatientShutdown

SftpWriteSliding ==
    Library \o OpenLocal \o Connection \o NonblockingLogin \o
    <<Again("sftp_init", "shutdown"), Again("sftp_open", "shutdown"),
      Do("put_loop"), Do("fclose")>> \o
    CloseFile \o PatientShutdown

(* A directory is opened, read and closed as a file is.                      *)
Sftpdir ==
    Library \o Connection \o ChosenLogin(Methods) \o
    <<Call("sftp_init", "shutdown"), Do("blocking"),
      Call("sftp_open", "shutdown"), Do("file_loop")>> \o
    CloseFile \o Shutdown

SftpdirNonblock ==
    Library \o Connection \o NonblockingLogin \o
    <<Again("sftp_init", "shutdown"), Again("sftp_open", "shutdown"),
      Do("file_loop")>> \o
    CloseFile \o Shutdown

(* An interactive shell is asked for and the channel freed: setenv, pty,     *)
(* shell.  Nothing is read or written.                                       *)
ShellRequests ==
    <<Call("open_session", "shutdown"), Do("channel_request"),
      Call("channel_request", "skip_shell"), Call("channel_request", "shutdown"),
      At("skip_shell", If("channel", Do("channel_free")))>>

Ssh2 ==
    Library \o
    <<Do("socket"), Call("connect", "return"), Do("session_init")>> \o
    ChosenLogin(Methods) \o ShellRequests \o Shutdown

Ssh2Agent ==
    Library \o
    <<Call("socket", "shutdown"), Call("connect", "shutdown"), Do("session_init"),
      Call("handshake", "return"), Call("userauth_list", "crash"),
      Call("publickey_listed", "shutdown"), Call("agent_init", "shutdown"),
      Call("agent_connect", "shutdown"), Call("agent_list", "shutdown"),
      Call("agent_userauth", "shutdown")>> \o
    ShellRequests \o
    <<At("shutdown", Do("agent_disconnect")), Do("agent_free"),
      If("session", Do("disconnect")), If("session", Do("session_free")),
      If("sock", Do("close")), Do("libssh2_exit")>>

(* The host's key is looked up among the known hosts; whatever the answer,   *)
(* the program goes on.                                                      *)
KnownHosts ==
    <<Call("knownhost_init", "return"), Do("knownhost_file"), Do("knownhost_file"),
      Call("session_hostkey", "return"), Do("knownhost_free")>>

Ssh2Exec ==
    Library \o Connection \o
    <<Do("nonblocking"), Again("handshake", "return")>> \o KnownHosts \o
    <<Again("userauth", "shutdown"), Again("open_session", "return"),
      Again("channel_request", "return")>>

Ssh2ExecEnd ==
    <<Do("channel_loop"), Again("channel_close", "on"), Do("channel_free")>> \o
    Shutdown

Ssh2Echo ==
    Library \o Connection \o
    <<Do("nonblocking"), Again("handshake", "return")>> \o KnownHosts \o
    <<If("password", Again("userauth", "return")), Again("open_session", "return"),
      Again("channel_request", "return"), Call("echo_loop", "return")>>

Ssh2EchoEnd ==
    <<Again("channel_close", "on"), Do("channel_free"),
      Call("compare_totals", "return"), Do("disconnect")>> \o
    Release

SubsystemNetconf ==
    Library \o CheckedConnection \o ChosenLogin({"password", "publickey"}) \o
    <<Call("open_session", "shutdown"), Call("channel_request", "shutdown"),
      Call("netconf_session", "shutdown"),
      At("shutdown", If("channel", Do("channel_free"))), Do("disconnect")>> \o
    Release

ForwardOpen ==
    Library \o CheckedConnection \o ChosenLogin({"password", "publickey"}) \o
    <<Call("forward_listen", "shutdown"), Call("forward_accept", "shutdown"),
      Call("forward_socket", "shutdown"), Call("forward_connect", "shutdown")>>

ForwardRelay ==
    <<Do("nonblocking"), Do("relay_loop"), At("shutdown", Do("close_forward")),
      If("channel", Do("channel_free")), If("listener", Do("forward_cancel")),
      Do("disconnect")>> \o
    Release

DirectOpen ==
    Library \o CheckedConnection \o ChosenLogin({"password", "publickey"}) \o
    <<Call("listen_socket", "return"), Call("bind_listen", "shutdown"),
      Call("accept", "shutdown"), Call("direct_tcpip", "shutdown")>>

DirectRelay ==
    <<Do("nonblocking"), Do("relay_loop"), At("shutdown", Do("close_forward")),
      Do("close_listen"), If("channel", Do("channel_free")), Do("disconnect")>> \o
    Release

(* Errors after the handshake release the session and return; the ordinary   *)
(* end does not release it.                                                  *)
X11 ==
    Library \o
    <<Call("socket", "return"), Call("connect", "return"), Do("session_init"),
      Call("handshake", "return"), Do("callback_set"),
      Call("userauth", "session_shutdown"), Call("open_session", "session_shutdown"),
      Call("channel_request", "session_shutdown"),   \* pty, x11, shell
      Call("channel_request", "session_shutdown"),
      Call("channel_request", "session_shutdown"),
      Call("raw_mode", "session_shutdown"), Do("channel_loop"),
      If("channel", Do("channel_free")), Do("normal_mode"),
      Last(Do("libssh2_exit"), "done"),
      At("session_shutdown", Do("disconnect")), Do("session_free"),
      Last(Do("close"), "return")>>

Table ==
    "scp" :> Scp @@ "scp_nonblock" :> ScpNonblock @@ "scp_write" :> ScpWrite @@
    "scp_write_nonblock" :> ScpWriteNonblock @@ "sftp" :> Sftp @@
    "sftp_RW_nonblock" :> SftpRwDownload \o SftpRwUpload @@
    "sftp_append" :> SftpAppend @@ "sftp_mkdir" :> SftpMkdir @@
    "sftp_mkdir_nonblock" :> SftpMkdirNonblock @@ "sftp_nonblock" :> SftpNonblock @@
    "sftp_write" :> SftpWrite @@ "sftp_write_nonblock" :> SftpWriteNonblock @@
    "sftp_write_sliding" :> SftpWriteSliding @@ "sftpdir" :> Sftpdir @@
    "sftpdir_nonblock" :> SftpdirNonblock @@ "ssh2" :> Ssh2 @@
    "ssh2_agent" :> Ssh2Agent @@
    "ssh2_exec" :> Ssh2Exec \o Ssh2ExecEnd @@
    "ssh2_echo" :> Ssh2Echo \o Ssh2EchoEnd @@ "subsystem_netconf" :> SubsystemNetconf @@
    "tcpip-forward" :> ForwardOpen \o ForwardRelay @@
    "direct_tcpip" :> DirectOpen \o DirectRelay @@ "x11" :> X11

-----------------------------------------------------------------------------
(* What the properties are stated with.                                      *)

Resources == UNION {Api[c].gets : c \in DOMAIN Api}

(* The steps of the login that depend on what the server or the agent lists. *)
Listing == {"userauth_list", "publickey_listed", "agent_list", "agent_userauth"}

(* The calls that can be handed what the program has not got: the result of  *)
(* session_init is not checked; the list of methods is NULL after an error,  *)
(* or for a user who need not log in; ssh2_agent leaves for "shutdown"       *)
(* before it has an agent to disconnect; and subsystem_netconf searches a    *)
(* full buffer past its end.                                                 *)
KnownCrashes ==
    {<<p, "handshake">> : p \in {"ssh2", "ssh2_agent", "x11"}}
    \cup {<<p, "userauth_list">> : p \in
            {"sftp", "sftpdir", "ssh2", "ssh2_agent", "subsystem_netconf",
             "tcpip-forward", "direct_tcpip"}}
    \cup {<<"ssh2_agent", "agent_disconnect">>, <<"subsystem_netconf", "netconf_session">>}

(* What a program is known to leave behind when it runs to its end.          *)
LeftBy(p) ==
    CASE p = "x11" -> {"session", "sock"}
      [] p \in {"scp_write_nonblock", "sftp_write_nonblock",
                "sftp_write_sliding"} -> {"local"}
      [] p \in {"sftp_append", "sftp_RW_nonblock"} -> {"handle"}
      [] OTHER -> {}

(* What stands on what.                                                      *)
StandsOn ==
    {<<"session", "library">>, <<"session", "sock">>, <<"channel", "session">>,
     <<"listener", "session">>, <<"knownhosts", "session">>, <<"agent", "session">>,
     <<"agent socket", "agent">>, <<"sftp", "session">>, <<"handle", "sftp">>}
=============================================================================
