SPECIFICATION Spec
CONSTANTS
    t1 = t1
    u1 = u1
    u2 = u2
    m1 = m1
    m2 = m2
    Tasks = {t1}
    Users = {u1, u2}
    Mailboxes = {m1, m2}
    MailboxOf <- MCMailboxOf
    NoMailbox = NoMailbox
    NoUser = NoUser
    Verdicts <- MCVerdicts
    NoVerdict = NoVerdict
    MaxRetries = 1
    MaxLinks = 2
    RetryRaises = {"cause"}
INVARIANT
    ExhaustedReachesDLQ
CHECK_DEADLOCK FALSE
