------------------------------- MODULE MCSmtp -------------------------------
(* Two messages in turn and one with an address that cannot be written, and a server
   whose offers change. *)
EXTENDS Smtp

MCMail == [one |-> [to |-> <<"ann", "bob">>, has |-> {"eight", "receipt"}],
           two |-> [to |-> <<"cid">>, has |-> {"big", "utf8"}],
           bad |-> [to |-> <<"two words">>, has |-> {"invalid"}]]
MCSasl == <<"Plain", "Login", "XOauth2">>
Everything == {"STARTTLS", "8BITMIME", "SMTPUTF8", "DSN", "CHUNKING", "SIZE", "Plain", "XOauth2"}
MCOffers == {{"STARTTLS", "8BITMIME", "Login", "XOauth2"}, Everything,
             {"8BITMIME", "DSN", "SMALL", "Plain"}, {"STARTTLS", "CHUNKING", "ZERO", "Login"}}
MCSetups == {[tls |-> "Implicit", cred |-> "OAuth"], [tls |-> "StartTlsRequired", cred |-> "Password"],
             [tls |-> "Plaintext", cred |-> "Password"]}
=============================================================================
