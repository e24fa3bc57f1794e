SPECIFICATION Spec
CONSTANTS
    Workers = {1, 2}
    Urls = {"a", "b", "c"}
    StartUrl = "a"
    Links <- MCLinks
    Redirects <- MCRedirects
    MaxTaken = 4
INVARIANT CrawlInv
PROPERTY LinksAreTaken
CHECK_DEADLOCK FALSE
